---- MODULE Spec2Model ----
(***************************************************************************)
(* A model of elementpath/regex/unicode_subsets.py: the UnicodeSubset      *)
(* ordered list of code points and ranges (add, discard, __contains__,     *)
(* the set algebra, complement), the character-class parser                *)
(* iterparse_character_subset, and the registries of Unicode categories    *)
(* and blocks with their install functions.                                *)
(*                                                                         *)
(* Encoding.  A Python int entry v is the 1-tuple <<v>>, a range entry     *)
(* (lo, hi) is the 2-tuple <<lo, hi>>: isinstance(cp, int) is Len(cp) = 1. *)
(* List equality is therefore literal, as in UnicodeSubset.__eq__: the     *)
(* scalar <<3>> and the range <<3, 4>> are different entries.  Python      *)
(* lists are 0-based, TLA+ sequences are 1-based: list index k is          *)
(* sequence index k + 1.                                                   *)
(***************************************************************************)
EXTENDS Integers, Sequences, FiniteSets, TLC

\* sys.maxunicode (0x10FFFF in CPython), scaled down so that every list of
\* entries over the code space can be enumerated.
maxunicode == 4

VARIABLES
    cps,    \* UnicodeSubset._codepoints of the set under test
    call    \* the record of the call that has just returned, or NoCall

-----------------------------------------------------------------------------
(* Entries *)

\* cp0 of an entry: cp if it is an int, cp[0] if it is a range.
cp0_of(cp) == cp[1]

\* cp1 of an entry: cp + 1 if it is an int, cp[1] if it is a range.
cp1_of(cp) == IF Len(cp) = 1 THEN cp[1] + 1 ELSE cp[2]

\* list.insert(k, value), k a 0-based index with 0 <= k <= len(list).
list_insert(l, k, value) ==
    SubSeq(l, 1, k) \o <<value>> \o SubSeq(l, k + 1, Len(l))

\* del list[k], k a 0-based index.
list_del(l, k) == SubSeq(l, 1, k) \o SubSeq(l, k + 2, Len(l))

\* list[k] = value, k a 0-based index.
list_set(l, k, value) == [l EXCEPT ![k + 1] = value]

min(a, b) == IF a < b THEN a ELSE b

-----------------------------------------------------------------------------
(* Validation shared by add and discard *)

\* Mutation of is_code_point: lo < hi written lo <= hi, which lets the empty
\* range through.
is_code_point_or_empty(value) ==
    IF Len(value) = 1
    THEN 0 <= value[1] /\ value[1] <= maxunicode
    ELSE 0 <= value[1] /\ value[1] <= value[2] /\ value[2] <= maxunicode + 1

\* The guard of add/discard: an int must be in 0..maxunicode, a range must
\* satisfy 0 <= lo < hi <= maxunicode + 1.
is_code_point(value) ==
    IF Len(value) = 1
    THEN 0 <= value[1] /\ value[1] <= maxunicode
    ELSE 0 <= value[1] /\ value[1] < value[2] /\ value[2] <= maxunicode + 1

start_of(value) == value[1]

end_of(value) == IF Len(value) = 1 THEN value[1] + 1 ELSE value[2]

-----------------------------------------------------------------------------
(* UnicodeSubset.__contains__ *)

RECURSIVE contains_from(_, _, _)
contains_from(l, k, value) ==
    IF k >= Len(l) THEN FALSE
    ELSE LET cp == l[k + 1] IN
         IF Len(cp) # 1
         THEN IF cp[1] > value THEN FALSE
              ELSE IF cp[2] <= value THEN contains_from(l, k + 1, value)
              ELSE TRUE
         ELSE IF cp[1] > value THEN FALSE
              ELSE IF cp[1] = value THEN TRUE
              ELSE contains_from(l, k + 1, value)

contains(l, value) == contains_from(l, 0, value)

-----------------------------------------------------------------------------
(* UnicodeSubset.add *)

\* The for loop of add from list index k on, with the current start_cp (the
\* loop reassigns it) and the list as modified so far.  last_index is
\* computed once, before the loop.  The result is the list when the loop
\* ends: at a break, or after the for-else append of the original value.
RECURSIVE add_from(_, _, _, _, _, _)
add_from(code_points, k, start_cp, end_cp, value, last_index) ==
    IF k >= Len(code_points) THEN Append(code_points, value)
    ELSE LET cp  == code_points[k + 1]
             cp0 == cp0_of(cp)
             cp1 == cp1_of(cp)
         IN
         IF end_cp < cp0 THEN list_insert(code_points, k, value)
         ELSE IF start_cp > cp1
         THEN add_from(code_points, k + 1, start_cp, end_cp, value, last_index)
         ELSE IF end_cp > cp1
         THEN IF k = last_index
              THEN list_set(code_points, k, <<min(cp0, start_cp), end_cp>>)
              ELSE LET higher_bound == cp0_of(code_points[k + 2]) IN
                   IF end_cp <= higher_bound
                   THEN list_set(code_points, k, <<min(cp0, start_cp), end_cp>>)
                   ELSE add_from(
                            list_set(code_points, k,
                                     <<min(cp0, start_cp), higher_bound>>),
                            k + 1, higher_bound, end_cp, value, last_index)
         ELSE IF start_cp < cp0
         THEN list_set(code_points, k, <<start_cp, cp1>>)
         ELSE code_points

\* Mutation of add: the loop without the look at the next entry, so that a
\* range reaching past the next entry's start is written over entry k whole.
RECURSIVE add_from_no_lookahead(_, _, _, _, _)
add_from_no_lookahead(code_points, k, start_cp, end_cp, value) ==
    IF k >= Len(code_points) THEN Append(code_points, value)
    ELSE LET cp  == code_points[k + 1]
             cp0 == cp0_of(cp)
             cp1 == cp1_of(cp)
         IN
         IF end_cp < cp0 THEN list_insert(code_points, k, value)
         ELSE IF start_cp > cp1
         THEN add_from_no_lookahead(code_points, k + 1, start_cp, end_cp, value)
         ELSE IF end_cp > cp1
         THEN list_set(code_points, k, <<min(cp0, start_cp), end_cp>>)
         ELSE IF start_cp < cp0
         THEN list_set(code_points, k, <<start_cp, cp1>>)
         ELSE code_points

add_no_lookahead(code_points, value) ==
    add_from_no_lookahead(code_points, 0, start_of(value), end_of(value), value)

\* Mutation of add: the range taken as closed, end_cp one too far.
add_closed(code_points, value) ==
    add_from(code_points, 0, start_of(value), end_of(value) + 1, value,
             Len(code_points) - 1)

\* add(value) on a list, for a value that passed the validation.
add(code_points, value) ==
    add_from(code_points, 0, start_of(value), end_of(value), value,
             Len(code_points) - 1)

-----------------------------------------------------------------------------
(* UnicodeSubset.discard *)

\* The loop of discard, for k in reversed(range(len(codepoints))), from list
\* index k down; k = -1 is the end of the loop.
RECURSIVE discard_from(_, _, _, _)
discard_from(codepoints, k, start_cp, end_cp) ==
    IF k < 0 THEN codepoints
    ELSE LET cp  == codepoints[k + 1]
             cp0 == cp0_of(cp)
             cp1 == cp1_of(cp)
         IN
         IF start_cp >= cp1 THEN codepoints
         ELSE IF end_cp >= cp1
         THEN IF start_cp <= cp0
              THEN discard_from(list_del(codepoints, k), k - 1, start_cp, end_cp)
              ELSE IF start_cp - cp0 > 1
              THEN discard_from(list_set(codepoints, k, <<cp0, start_cp>>),
                                k - 1, start_cp, end_cp)
              ELSE discard_from(list_set(codepoints, k, <<cp0>>),
                                k - 1, start_cp, end_cp)
         ELSE IF end_cp > cp0
         THEN IF start_cp <= cp0
              THEN IF cp1 - end_cp > 1
                   THEN discard_from(list_set(codepoints, k, <<end_cp, cp1>>),
                                     k - 1, start_cp, end_cp)
                   ELSE discard_from(list_set(codepoints, k, <<cp1 - 1>>),
                                     k - 1, start_cp, end_cp)
              ELSE LET back  == IF cp1 - end_cp > 1
                                THEN <<end_cp, cp1>> ELSE <<cp1 - 1>>
                       front == IF start_cp - cp0 > 1
                                THEN <<cp0, start_cp>> ELSE <<cp0>>
                   IN discard_from(
                          list_set(list_insert(codepoints, k + 1, back), k, front),
                          k - 1, start_cp, end_cp)
         ELSE discard_from(codepoints, k - 1, start_cp, end_cp)

\* Mutation of discard: the range taken as closed, end_cp one too far.
discard_closed(codepoints, value) ==
    discard_from(codepoints, Len(codepoints) - 1, start_of(value),
                 end_of(value) + 1)

\* Mutation of discard: start_cp one too low.
discard_early(codepoints, value) ==
    discard_from(codepoints, Len(codepoints) - 1, start_of(value) - 1,
                 end_of(value))

\* discard(value) on a list, for a value that passed the validation.
discard(codepoints, value) ==
    discard_from(codepoints, Len(codepoints) - 1, start_of(value), end_of(value))

-----------------------------------------------------------------------------
(* UnicodeSubset.__copy__, __ior__, __or__ *)

\* __copy__: a new set whose list is a copy of the list; lists are values
\* here, so the copy is the list itself.
copy(code_points) == code_points

\* __ior__ with a UnicodeSubset operand: self.add(cp) for each entry cp of
\* reversed(other._codepoints), from entry n (1-based) down to the first.
RECURSIVE ior_from(_, _, _)
ior_from(code_points, other, n) ==
    IF n = 0 THEN code_points
    ELSE ior_from(add(code_points, other[n]), other, n - 1)

ior(code_points, other) == ior_from(code_points, other, Len(other))

\* __or__: obj = self.__copy__(); return obj.__ior__(other).
union(code_points, other) == ior(copy(code_points), other)

-----------------------------------------------------------------------------
(* UnicodeSubset.__iter__, __isub__, __sub__, __iand__, __and__, __ixor__,
   __xor__ *)

\* range(lo, hi) as a sequence of ints; empty when hi <= lo.
range(lo, hi) == [i \in 1 .. (IF hi > lo THEN hi - lo ELSE 0) |-> lo + i - 1]

\* __iter__: the ints of the entries from entry k (1-based) on, each range
\* entry expanded by range(*cp).
RECURSIVE iter_from(_, _)
iter_from(l, k) ==
    IF k > Len(l) THEN <<>>
    ELSE (IF Len(l[k]) = 1 THEN <<l[k][1]>> ELSE range(l[k][1], l[k][2]))
         \o iter_from(l, k + 1)

iter(l) == iter_from(l, 1)

\* __reversed__: the ints of the entries from entry k (1-based) down to the
\* first, each range entry expanded by reversed(range(item[0], item[1])).
RECURSIVE reversed_from(_, _)
reversed_from(l, k) ==
    IF k = 0 THEN <<>>
    ELSE (IF Len(l[k]) = 1 THEN <<l[k][1]>>
          ELSE [i \in 1 .. Len(range(l[k][1], l[k][2])) |-> l[k][2] - i])
         \o reversed_from(l, k - 1)

\* Mutation of reversed: the entries from the last to the first, the ints of
\* each range in ascending order.
reversed_entries(l) ==
    IF l = <<>> THEN <<>>
    ELSE iter_from(l, Len(l)) \o reversed_from(SubSeq(l, 1, Len(l) - 1),
                                               Len(l) - 1)

reversed(l) == reversed_from(l, Len(l))

\* __len__: k = 0; for _ in self: k += 1; return k.
len(l) == Len(iter(l))

\* __isub__ with a UnicodeSubset operand: self.discard(cp) for each entry cp
\* of reversed(other._codepoints).
RECURSIVE isub_from(_, _, _)
isub_from(codepoints, other, n) ==
    IF n = 0 THEN codepoints
    ELSE isub_from(discard(codepoints, other[n]), other, n - 1)

isub(codepoints, other) == isub_from(codepoints, other, Len(other))

\* __sub__: obj = self.__copy__(); return obj.__isub__(other).
sub(codepoints, other) == isub(copy(codepoints), other)

\* The loop of __iand__ over the ints yielded by iterating self - other.
RECURSIVE iand_from(_, _, _)
iand_from(codepoints, values, k) ==
    IF k > Len(values) THEN codepoints
    ELSE iand_from(discard(codepoints, <<values[k]>>), values, k + 1)

\* Mutation of iand: the loop runs over the ints of other instead of those
\* of self - other.
iand_discards_other(codepoints, other) ==
    iand_from(codepoints, iter(other), 1)

\* __iand__: for value in (self - other): self.discard(value).
iand(codepoints, other) ==
    iand_from(codepoints, iter(sub(codepoints, other)), 1)

\* Mutation of and_: the loop of __iand__ runs over the ints of other.
and_discards_other(codepoints, other) ==
    iand_discards_other(copy(codepoints), other)

\* __and__: obj = self.__copy__(); return obj.__iand__(other).
and_(codepoints, other) == iand(copy(codepoints), other)

\* The loop of __ixor__ over the ints yielded by iterating other.
RECURSIVE ixor_from(_, _, _)
ixor_from(codepoints, values, k) ==
    IF k > Len(values) THEN codepoints
    ELSE ixor_from(IF contains(codepoints, values[k])
                   THEN discard(codepoints, <<values[k]>>)
                   ELSE add(codepoints, <<values[k]>>),
                   values, k + 1)

\* __ixor__ with another UnicodeSubset (not self) as operand.
ixor(codepoints, other) == ixor_from(codepoints, iter(other), 1)

\* clear: del self._codepoints[:].
clear(codepoints) == <<>>

\* __ixor__ with a UnicodeSubset operand that is self or another set: lines
\* 409-411 clear the set when other is self.
ixor_subset(codepoints, other, other_is_self) ==
    IF other_is_self THEN clear(codepoints) ELSE ixor(codepoints, other)

\* __xor__: obj = self.__copy__(); return obj.__ixor__(other); obj is never
\* the operand, so the loop always runs.
xor(codepoints, other) == ixor(copy(codepoints), other)

-----------------------------------------------------------------------------
(* UnicodeSubset.complement, update, __init__ from an iterable *)

\* The body of the for loop of complement from entry k (1-based) on, and the
\* two final yields; items are the items yielded so far.  The outcome holds
\* the items yielded and whether ValueError was raised.
RECURSIVE complement_from(_, _, _, _)
complement_from(l, k, last_cp, items) ==
    IF k > Len(l)
    THEN [items |-> IF last_cp < maxunicode
                    THEN Append(items, <<last_cp, maxunicode + 1>>)
                    ELSE IF last_cp = maxunicode
                    THEN Append(items, <<maxunicode>>)
                    ELSE items,
          raised |-> FALSE]
    ELSE LET cp0 == cp0_of(l[k])
             cp1 == cp1_of(l[k])
             diff == cp0 - last_cp
         IN IF diff > 2
            THEN complement_from(l, k + 1, cp1, Append(items, <<last_cp, cp0>>))
            ELSE IF diff = 2
            THEN complement_from(l, k + 1, cp1,
                                 items \o <<<<last_cp>>, <<last_cp + 1>>>>)
            ELSE IF diff = 1
            THEN complement_from(l, k + 1, cp1, Append(items, <<last_cp>>))
            ELSE IF diff # 0
            THEN [items |-> items, raised |-> TRUE]
            ELSE complement_from(l, k + 1, cp1, items)

\* Mutation of complement_from: the final gap stops one code point short of
\* maxunicode.
RECURSIVE complement_from_short(_, _, _, _)
complement_from_short(l, k, last_cp, items) ==
    IF k > Len(l)
    THEN [items |-> IF last_cp < maxunicode - 1
                    THEN Append(items, <<last_cp, maxunicode>>)
                    ELSE IF last_cp = maxunicode - 1
                    THEN Append(items, <<maxunicode - 1>>)
                    ELSE items,
          raised |-> FALSE]
    ELSE LET cp0 == cp0_of(l[k])
             cp1 == cp1_of(l[k])
             diff == cp0 - last_cp
         IN IF diff > 2
            THEN complement_from_short(l, k + 1, cp1,
                                       Append(items, <<last_cp, cp0>>))
            ELSE IF diff = 2
            THEN complement_from_short(l, k + 1, cp1,
                                       items \o <<<<last_cp>>, <<last_cp + 1>>>>)
            ELSE IF diff = 1
            THEN complement_from_short(l, k + 1, cp1, Append(items, <<last_cp>>))
            ELSE IF diff # 0
            THEN [items |-> items, raised |-> TRUE]
            ELSE complement_from_short(l, k + 1, cp1, items)

\* Mutation of complement_from: a gap of two code points yields only the
\* first of them.
RECURSIVE complement_from_one_of_two(_, _, _, _)
complement_from_one_of_two(l, k, last_cp, items) ==
    IF k > Len(l)
    THEN [items |-> IF last_cp < maxunicode
                    THEN Append(items, <<last_cp, maxunicode + 1>>)
                    ELSE IF last_cp = maxunicode
                    THEN Append(items, <<maxunicode>>)
                    ELSE items,
          raised |-> FALSE]
    ELSE LET cp0 == cp0_of(l[k])
             cp1 == cp1_of(l[k])
             diff == cp0 - last_cp
         IN IF diff > 2
            THEN complement_from_one_of_two(l, k + 1, cp1,
                                            Append(items, <<last_cp, cp0>>))
            ELSE IF diff = 2
            THEN complement_from_one_of_two(l, k + 1, cp1,
                                            Append(items, <<last_cp>>))
            ELSE IF diff = 1
            THEN complement_from_one_of_two(l, k + 1, cp1,
                                            Append(items, <<last_cp>>))
            ELSE IF diff # 0
            THEN [items |-> items, raised |-> TRUE]
            ELSE complement_from_one_of_two(l, k + 1, cp1, items)

\* Mutation of complement_from: an entry that starts one code point before
\* the end of the preceding entry is let through.
RECURSIVE complement_from_lenient(_, _, _, _)
complement_from_lenient(l, k, last_cp, items) ==
    IF k > Len(l)
    THEN [items |-> IF last_cp < maxunicode
                    THEN Append(items, <<last_cp, maxunicode + 1>>)
                    ELSE IF last_cp = maxunicode
                    THEN Append(items, <<maxunicode>>)
                    ELSE items,
          raised |-> FALSE]
    ELSE LET cp0 == cp0_of(l[k])
             cp1 == cp1_of(l[k])
             diff == cp0 - last_cp
         IN IF diff > 2
            THEN complement_from_lenient(l, k + 1, cp1,
                                         Append(items, <<last_cp, cp0>>))
            ELSE IF diff = 2
            THEN complement_from_lenient(l, k + 1, cp1,
                                         items \o <<<<last_cp>>, <<last_cp + 1>>>>)
            ELSE IF diff = 1
            THEN complement_from_lenient(l, k + 1, cp1, Append(items, <<last_cp>>))
            ELSE IF diff < -1
            THEN [items |-> items, raised |-> TRUE]
            ELSE complement_from_lenient(l, k + 1, cp1, items)

complement_short(l) == complement_from_short(l, 1, 0, <<>>)

complement_one_of_two(l) == complement_from_one_of_two(l, 1, 0, <<>>)

complement_lenient(l) == complement_from_lenient(l, 1, 0, <<>>)

\* complement(): last_cp = 0, then the loop.
complement(l) == complement_from(l, 1, 0, <<>>)

\* iter_code_points(items, reverse=True): the items in descending order of
\* their start.
RECURSIVE iter_code_points_reverse(_)
iter_code_points_reverse(items) ==
    IF items = <<>> THEN <<>>
    ELSE LET k == CHOOSE i \in 1 .. Len(items) :
                      \A j \in 1 .. Len(items) :
                          start_of(items[j]) <= start_of(items[i])
         IN <<items[k]>> \o iter_code_points_reverse(list_del(items, k - 1))

\* The loop of update over the items cps from item k (1-based) on:
\* self.add(cp).
RECURSIVE update_from(_, _, _)
update_from(codepoints, items, k) ==
    IF k > Len(items) THEN codepoints
    ELSE update_from(add(codepoints, items[k]), items, k + 1)

\* update(value) for an iterable of ints and pairs.
update(codepoints, value) ==
    update_from(codepoints, iter_code_points_reverse(value), 1)

\* UnicodeSubset(iterable) for an iterable that is neither a list nor a set:
\* self._codepoints = list(); self.update(codepoints).
from_iterable(codepoints) == update(<<>>, codepoints)

-----------------------------------------------------------------------------
(* install_unicode_categories: the patch of one category by one diff *)

\* cp_int and cpa_int: the int itself, or the start of the pair.
int_of(cp) == cp[1]

\* The while loop: the index after the last insertion, from j (1-based) on,
\* whose cpa_int is <= cp_int.
RECURSIVE while_end(_, _, _)
while_end(insert_cps, j, cp_int) ==
    IF j <= Len(insert_cps) /\ int_of(insert_cps[j]) <= cp_int
    THEN while_end(insert_cps, j + 1, cp_int)
    ELSE j

\* The for loop over raw_categories[k] from entry k (1-based) on, with cpa
\* the insertion at index j and values the list built so far, and its else
\* branch, which appends the insertions left.
RECURSIVE patch_from(_, _, _, _, _, _)
patch_from(base, k, exclude_cps, insert_cps, j, values) ==
    IF k > Len(base)
    THEN values \o SubSeq(insert_cps, j, Len(insert_cps))
    ELSE IF base[k] \in exclude_cps
    THEN patch_from(base, k + 1, exclude_cps, insert_cps, j, values)
    ELSE LET j2 == while_end(insert_cps, j, int_of(base[k]))
         IN patch_from(base, k + 1, exclude_cps, insert_cps, j2,
                       values \o SubSeq(insert_cps, j, j2 - 1) \o <<base[k]>>)

\* Mutation of patch_from: the else branch of the for loop appends only the
\* insertion at hand, not the ones after it.
RECURSIVE patch_from_one_left(_, _, _, _, _, _)
patch_from_one_left(base, k, exclude_cps, insert_cps, j, values) ==
    IF k > Len(base)
    THEN values \o SubSeq(insert_cps, j, min(j, Len(insert_cps)))
    ELSE IF base[k] \in exclude_cps
    THEN patch_from_one_left(base, k + 1, exclude_cps, insert_cps, j, values)
    ELSE LET j2 == while_end(insert_cps, j, int_of(base[k]))
         IN patch_from_one_left(base, k + 1, exclude_cps, insert_cps, j2,
                                values \o SubSeq(insert_cps, j, j2 - 1)
                                       \o <<base[k]>>)

patch_one_left(base, exclude_cps, insert_cps) ==
    patch_from_one_left(base, 1, exclude_cps, insert_cps, 1, <<>>)

\* values for one category k and one (exclude_cps, insert_cps) of a diff.
patch(base, exclude_cps, insert_cps) ==
    patch_from(base, 1, exclude_cps, insert_cps, 1, <<>>)

-----------------------------------------------------------------------------
(* iterparse_character_subset *)

\* ord() of the characters the parser tests for.
HYPHEN == 45

BACKSLASH == 92

\* r'[]'
BRACKETS == {91, 93}

\* r'|.^?*+{}()'
META == {124, 46, 94, 63, 42, 43, 123, 125, 40, 41}

\* r'-|.^?*+{}()[]': what a backslash may escape as the end of a range.
RANGE_END_ESCAPES == {HYPHEN} \cup META \cup BRACKETS

\* r'sSdDiIcCwWpP'
SHORTHANDS == {115, 83, 100, 68, 105, 73, 99, 67, 119, 87, 112, 80}

VARIABLES
    s,              \* the class body, a sequence of code points
    expand_ranges,  \* the expand_ranges argument of the running call
    pos,            \* the next index subset_index_iterator will give
    escaped,
    on_range,
    char,           \* ord(char); -1 for the initial ''
    out,            \* what the generator has yielded so far
    pc,             \* "idle", "loop", "done" or "raised" (RegexError)
    error,          \* the RegexError raised: its kind and its position
    step,           \* the branch of the loop body that ran last
    prev            \* the outcome of the preceding call on the same body

VARIABLES
    unidata_version,     \* unicodedata.unidata_version, split at the dots
    unicode_categories,  \* _unicode_categories: name -> list of the subset
    unicode_blocks,      \* _unicode_blocks: key -> raw body
    D_SHORTCUT_SET,      \* D_SHORTCUT_SET._codepoints
    W_SHORTCUT_SET,      \* W_SHORTCUT_SET._codepoints
    install,             \* the running or last call of an install function
    reader,              \* a caller of unicode_category and what it holds
    objects,             \* how many sets unicode_block has constructed
    lookup               \* the call of unicode_block or get_unicode_subset
                         \* that has just returned or raised

VARIABLES
    heap                 \* the lists of the sets of a caller, by identity,
                         \* and which of them an operator has returned

registryVars ==
    <<unidata_version, unicode_categories, unicode_blocks, D_SHORTCUT_SET,
      W_SHORTCUT_SET, install, reader, objects, lookup>>

parseVars ==
    <<s, expand_ranges, pos, escaped, on_range, char, out, pc, error, step, prev>>

vars == <<cps, call, s, expand_ranges, pos, escaped, on_range, char, out, pc,
          error, step, prev, registryVars, heap>>

length == Len(s)

\* s[k] for a 0-based index k.
at(k) == s[k + 1]

NoError == [kind |-> "none", position |-> -1]

NoOutcome == [pc |-> "none", out |-> <<>>, error |-> NoError]

\* yield from range(lo, hi)
scalars(lo, hi) == [i \in 1 .. (IF hi > lo THEN hi - lo ELSE 0) |-> <<lo + i - 1>>]

\* The loop is about to take index pos from the iterator.
AtIndex == pc = "loop" /\ pos < length

\* Mutation of First: the first character is yielded although a range
\* follows.
First_emits ==
    /\ AtIndex /\ pos = 0
    /\ pos' = 1
    /\ char' = at(0)
    /\ step' = "first"
    /\ IF at(0) = BACKSLASH
       THEN escaped' = TRUE /\ out' = out /\ pc' = pc /\ error' = error
       ELSE IF at(0) \in BRACKETS /\ length > 1
       THEN /\ pc' = "raised"
            /\ error' = [kind |-> "character", position |-> 0]
            /\ escaped' = escaped /\ out' = out
       ELSE /\ escaped' = escaped /\ pc' = pc /\ error' = error
            /\ out' = Append(out, <<at(0)>>)
    /\ UNCHANGED <<registryVars, heap, cps, call, s, expand_ranges, on_range, prev>>

\* Lines 42-51: the body for k == 0.
First ==
    /\ AtIndex /\ pos = 0
    /\ pos' = 1
    /\ char' = at(0)
    /\ step' = "first"
    /\ IF at(0) = BACKSLASH
       THEN escaped' = TRUE /\ out' = out /\ pc' = pc /\ error' = error
       ELSE IF at(0) \in BRACKETS /\ length > 1
       THEN /\ pc' = "raised"
            /\ error' = [kind |-> "character", position |-> 0]
            /\ escaped' = escaped /\ out' = out
       ELSE /\ escaped' = escaped /\ pc' = pc /\ error' = error
            /\ IF expand_ranges THEN out' = Append(out, <<at(0)>>)
               ELSE IF length <= 2 \/ at(1) # HYPHEN
               THEN out' = Append(out, <<at(0)>>)
               ELSE out' = out
    /\ UNCHANGED <<registryVars, heap, cps, call, s, expand_ranges, on_range, prev>>

\* Lines 53-60: a hyphen that is escaped, last, or follows a range is a
\* literal.
HyphenLiteral ==
    /\ AtIndex /\ pos > 0 /\ at(pos) = HYPHEN
    /\ escaped \/ pos = length - 1 \/ on_range
    /\ pos' = pos + 1
    /\ char' = HYPHEN
    /\ out' = Append(out, <<HYPHEN>>)
    /\ step' = "hyphen"
    /\ IF escaped \/ pos = length - 1
       THEN escaped' = FALSE /\ on_range' = on_range
       ELSE escaped' = escaped /\ on_range' = FALSE
    /\ UNCHANGED <<registryVars, heap, cps, call, s, expand_ranges, pc, error, prev>>

\* Lines 61-80: any other hyphen starts a range; the end of the range is
\* taken from the iterator, once more if it is an escaped character.
Range ==
    /\ AtIndex /\ pos > 0 /\ at(pos) = HYPHEN
    /\ ~(escaped \/ pos = length - 1 \/ on_range)
    /\ LET k1      == pos + 1          \* k = next(subset_index_iterator)
           is_esc  == at(k1) = BACKSLASH /\ k1 < length - 1
           takes   == is_esc /\ at(k1 + 1) \in RANGE_END_ESCAPES
           bad_esc == is_esc /\ ~takes /\ at(k1 + 1) \in SHORTHANDS
           k2      == IF takes THEN k1 + 1 ELSE k1
           end_char == at(k2)
       IN
       /\ on_range' = TRUE
       /\ step' = "range"
       /\ pos' = k2 + 1
       /\ IF bad_esc
          THEN /\ pc' = "raised"
               /\ error' = [kind |-> "range", position |-> k1 - 2]
               /\ out' = out
          ELSE IF char > end_char
          THEN /\ pc' = "raised"
               /\ error' = [kind |-> "range", position |-> k2 - 2]
               /\ out' = out
          ELSE /\ pc' = pc /\ error' = error
               /\ IF expand_ranges
                  THEN out' = out \o scalars(char + 1, end_char + 1)
                  ELSE out' = Append(out, <<char, end_char + 1>>)
    /\ UNCHANGED <<registryVars, heap, cps, call, s, expand_ranges,
                   escaped, char, prev>>

\* Lines 82-87: a meta-character is a literal.
Meta ==
    /\ AtIndex /\ pos > 0 /\ at(pos) \in META
    /\ pos' = pos + 1
    /\ escaped' = FALSE
    /\ on_range' = FALSE
    /\ char' = at(pos)
    /\ out' = Append(out, <<at(pos)>>)
    /\ step' = "meta"
    /\ UNCHANGED <<registryVars, heap, cps, call, s, expand_ranges, pc, error, prev>>

\* Lines 88-94: a bracket is an error unless it is escaped or the whole body.
Bracket ==
    /\ AtIndex /\ pos > 0 /\ at(pos) \in BRACKETS
    /\ pos' = pos + 1
    /\ step' = "bracket"
    /\ IF ~escaped /\ length > 1
       THEN /\ pc' = "raised"
            /\ error' = [kind |-> "character", position |-> pos]
            /\ UNCHANGED <<escaped, on_range, char, out>>
       ELSE /\ escaped' = FALSE
            /\ on_range' = FALSE
            /\ char' = at(pos)
            /\ IF pos >= length - 2 \/ at(pos + 1) # HYPHEN
               THEN out' = Append(out, <<at(pos)>>)
               ELSE out' = out
            /\ UNCHANGED <<pc, error>>
    /\ UNCHANGED <<registryVars, heap, cps, call, s, expand_ranges, prev>>

\* Lines 95-101: a backslash escapes the next character, or is itself escaped.
Backslash ==
    /\ AtIndex /\ pos > 0 /\ at(pos) = BACKSLASH
    /\ pos' = pos + 1
    /\ step' = "backslash"
    /\ IF escaped
       THEN /\ escaped' = FALSE
            /\ on_range' = FALSE
            /\ char' = BACKSLASH
            /\ out' = Append(out, <<BACKSLASH>>)
       ELSE /\ escaped' = TRUE
            /\ UNCHANGED <<on_range, char, out>>
    /\ UNCHANGED <<registryVars, heap, cps, call, s, expand_ranges, pc, error, prev>>

\* Mutation of Other: the pending backslash is dropped.
Other_drops ==
    /\ AtIndex /\ pos > 0
    /\ at(pos) \notin {HYPHEN, BACKSLASH} \cup META \cup BRACKETS
    /\ pos' = pos + 1
    /\ step' = "other"
    /\ escaped' = FALSE
    /\ on_range' = FALSE
    /\ char' = at(pos)
    /\ LET own == IF pos >= length - 2 \/ at(pos + 1) # HYPHEN
                  THEN <<<<at(pos)>>>> ELSE <<>>
       IN out' = out \o own
    /\ UNCHANGED <<registryVars, heap, cps, call, s, expand_ranges, pc, error, prev>>

\* Lines 102-109: any other character.
Other ==
    /\ AtIndex /\ pos > 0
    /\ at(pos) \notin {HYPHEN, BACKSLASH} \cup META \cup BRACKETS
    /\ pos' = pos + 1
    /\ step' = "other"
    /\ escaped' = FALSE
    /\ on_range' = FALSE
    /\ char' = at(pos)
    /\ LET esc == IF escaped THEN <<<<BACKSLASH>>>> ELSE <<>>
           own == IF pos >= length - 2 \/ at(pos + 1) # HYPHEN
                  THEN <<<<at(pos)>>>> ELSE <<>>
       IN out' = out \o esc \o own
    /\ UNCHANGED <<registryVars, heap, cps, call, s, expand_ranges, pc, error, prev>>

\* Mutation of Finish: a pending backslash yields nothing.
Finish_silent ==
    /\ pc = "loop" /\ pos >= length
    /\ pc' = "done"
    /\ step' = "end"
    /\ out' = out
    /\ UNCHANGED <<registryVars, heap, cps, call, s, expand_ranges,
                   pos, escaped, on_range, char,
                   error, prev>>

\* Lines 110-111: the loop is over; a pending backslash is a literal.
Finish ==
    /\ pc = "loop" /\ pos >= length
    /\ pc' = "done"
    /\ step' = "end"
    /\ out' = IF escaped THEN Append(out, <<BACKSLASH>>) ELSE out
    /\ UNCHANGED <<registryVars, heap, cps, call, s, expand_ranges,
                   pos, escaped, on_range, char,
                   error, prev>>

\* The caller, having parsed the body with expand_ranges False, parses the
\* same body again with expand_ranges True: lines 36-40 of the new call.
ParseExpanded ==
    /\ pc \in {"done", "raised"} /\ ~expand_ranges
    /\ prev' = [pc |-> pc, out |-> out, error |-> error]
    /\ expand_ranges' = TRUE
    /\ pos' = 0
    /\ escaped' = FALSE
    /\ on_range' = FALSE
    /\ char' = -1
    /\ out' = <<>>
    /\ pc' = "loop"
    /\ error' = NoError
    /\ step' = "none"
    /\ UNCHANGED <<registryVars, heap, cps, call, s>>

\* Mutation of subscripts: the test k >= length - 2 of lines 93 and 108 is
\* left out.
subscripts_unguarded ==
    LET k == pos
        k1 == k + 1
    IN IF k = 0
       THEN {0} \cup (IF at(0) # BACKSLASH /\ ~(at(0) \in BRACKETS /\ length > 1)
                         /\ ~expand_ranges /\ ~(length <= 2)
                      THEN {1} ELSE {})
       ELSE IF at(k) = HYPHEN
       THEN {k} \cup (IF escaped \/ k = length - 1 \/ on_range THEN {}
                      ELSE {k1} \cup (IF at(k1) = BACKSLASH /\ k1 < length - 1
                                      THEN {k1 + 1} ELSE {}))
       ELSE IF at(k) \in META THEN {k}
       ELSE IF at(k) \in BRACKETS
       THEN {k} \cup (IF ~(~escaped /\ length > 1) THEN {k + 1} ELSE {})
       ELSE IF at(k) = BACKSLASH THEN {k}
       ELSE {k, k + 1}

\* The indices at which the body of the loop subscripts s when the iterator
\* gives index pos, the indices it takes from the iterator by next()
\* included: every s[...] of lines 43-108 behind the conditions that guard
\* it.
subscripts ==
    LET k == pos
        k1 == k + 1
    IN IF k = 0
       THEN {0} \cup (IF at(0) # BACKSLASH /\ ~(at(0) \in BRACKETS /\ length > 1)
                         /\ ~expand_ranges /\ ~(length <= 2)
                      THEN {1} ELSE {})
       ELSE IF at(k) = HYPHEN
       THEN {k} \cup (IF escaped \/ k = length - 1 \/ on_range THEN {}
                      ELSE {k1} \cup (IF at(k1) = BACKSLASH /\ k1 < length - 1
                                      THEN {k1 + 1} ELSE {}))
       ELSE IF at(k) \in META THEN {k}
       ELSE IF at(k) \in BRACKETS
       THEN {k} \cup (IF ~(~escaped /\ length > 1) /\ ~(k >= length - 2)
                      THEN {k + 1} ELSE {})
       ELSE IF at(k) = BACKSLASH THEN {k}
       ELSE {k} \cup (IF ~(k >= length - 2) THEN {k + 1} ELSE {})

\* list(iterparse_character_subset(str, expand)) as a function of its
\* arguments: the loop from index k (0-based) on, with the locals escaped,
\* on_range and char as they stand and the items yielded so far, then lines
\* 110-111.  The outcome holds the items yielded and whether RegexError was
\* raised.
RECURSIVE iterparse_from(_, _, _, _, _, _, _)
iterparse_from(str, expand, k, esc, rng, ch, items) ==
    LET n == Len(str)
        c == str[k + 1]
        \* k >= length - 2 or s[k + 1] != '-'
        emits == k >= n - 2 \/ str[k + 2] # HYPHEN
        k1 == k + 1
        is_esc == str[k1 + 1] = BACKSLASH /\ k1 < n - 1
        takes == is_esc /\ str[k1 + 2] \in RANGE_END_ESCAPES
        bad_esc == is_esc /\ ~takes /\ str[k1 + 2] \in SHORTHANDS
        k2 == IF takes THEN k1 + 1 ELSE k1
        end_char == str[k2 + 1]
        raise == [items |-> items, raised |-> TRUE]
    IN
    IF k >= n
    THEN [items |-> IF esc THEN Append(items, <<BACKSLASH>>) ELSE items,
          raised |-> FALSE]
    ELSE IF k = 0
    THEN IF c = BACKSLASH
         THEN iterparse_from(str, expand, 1, TRUE, rng, c, items)
         ELSE IF c \in BRACKETS /\ n > 1 THEN raise
         ELSE IF expand \/ n <= 2 \/ str[2] # HYPHEN
         THEN iterparse_from(str, expand, 1, esc, rng, c, Append(items, <<c>>))
         ELSE iterparse_from(str, expand, 1, esc, rng, c, items)
    ELSE IF c = HYPHEN
    THEN IF esc \/ k = n - 1
         THEN iterparse_from(str, expand, k + 1, FALSE, rng, c,
                             Append(items, <<c>>))
         ELSE IF rng
         THEN iterparse_from(str, expand, k + 1, esc, FALSE, c,
                             Append(items, <<c>>))
         ELSE IF bad_esc \/ ch > end_char THEN raise
         ELSE iterparse_from(str, expand, k2 + 1, esc, TRUE, ch,
                             IF expand
                             THEN items \o scalars(ch + 1, end_char + 1)
                             ELSE Append(items, <<ch, end_char + 1>>))
    ELSE IF c \in META
    THEN iterparse_from(str, expand, k + 1, FALSE, FALSE, c,
                        Append(items, <<c>>))
    ELSE IF c \in BRACKETS
    THEN IF ~esc /\ n > 1 THEN raise
         ELSE iterparse_from(str, expand, k + 1, FALSE, FALSE, c,
                             IF emits THEN Append(items, <<c>>) ELSE items)
    ELSE IF c = BACKSLASH
    THEN IF esc
         THEN iterparse_from(str, expand, k + 1, FALSE, FALSE, BACKSLASH,
                             Append(items, <<BACKSLASH>>))
         ELSE iterparse_from(str, expand, k + 1, TRUE, rng, ch, items)
    ELSE iterparse_from(str, expand, k + 1, FALSE, FALSE, c,
                        items \o (IF esc THEN <<<<BACKSLASH>>>> ELSE <<>>)
                              \o (IF emits THEN <<<<c>>>> ELSE <<>>))

iterparse_character_subset(str, expand) ==
    iterparse_from(str, expand, 0, FALSE, FALSE, -1, <<>>)

-----------------------------------------------------------------------------
(* The sets of a caller as objects: __copy__, copy, difference and the
   operators |, -, &, ^ *)

\* No set has been constructed.
NoHeap == [lists |-> <<>>, result |-> 0]

\* The two sets the caller holds: self and another set.
SelfSet == 1

OtherSet == 2

\* Mutation of copy_object: the new set takes the list of the set itself,
\* not a copy of it.
copy_object_shared(lists, ref) == [lists |-> lists, ref |-> ref]

\* __copy__ (lines 154-157) of the set whose list is lists[ref]: a new set
\* with a new list, a copy of the list.  The outcome is the lists and the
\* identity of the new list.
copy_object(lists, ref) ==
    [lists |-> Append(lists, lists[ref]), ref |-> Len(lists) + 1]

\* The loop of difference_update over the items cps from item k (1-based)
\* on: self.discard(cp).
RECURSIVE difference_update_from(_, _, _)
difference_update_from(codepoints, items, k) ==
    IF k > Len(items) THEN codepoints
    ELSE difference_update_from(discard(codepoints, items[k]), items, k + 1)

\* difference_update(value) for a UnicodeSubset value: the ints it yields,
\* through iter_code_points(value, reverse=True).
difference_update(codepoints, value) ==
    difference_update_from(
        codepoints,
        iter_code_points_reverse([i \in 1 .. Len(iter(value)) |->
                                     <<iter(value)[i]>>]),
        1)

\* obj = self.__copy__(), the first statement of the operators.  The list of
\* the set returned before is garbage by now.
obj == copy_object(SubSeq(heap.lists, 1, 2), SelfSet)

\* return obj.__ior__(other) and the like: the in-place method has left
\* codepoints in the list of obj, and obj is returned.
return_obj(codepoints) ==
    heap' = [lists |-> [obj.lists EXCEPT ![obj.ref] = codepoints],
             result |-> obj.ref]

-----------------------------------------------------------------------------
(* Calls on the set under test *)

\* No call has returned since the caller last looked.
NoCall ==
    [op |-> "none", value |-> <<>>, before |-> <<>>, raised |-> FALSE,
     result |-> <<>>]

\* The arguments a caller may pass to add and discard: ints and pairs, in and
\* around the code space, well-formed or not.
Values ==
    {<<v>> : v \in -1 .. maxunicode + 1}
    \cup {<<lo, hi>> : lo \in -1 .. maxunicode + 1, hi \in 0 .. maxunicode + 2}

\* s.add(value): raises ValueError before touching the list, or runs the loop.
Add(value) ==
    /\ call = NoCall
    /\ IF is_code_point(value)
       THEN /\ cps' = add(cps, value)
            /\ call' = [op |-> "add", value |-> value, before |-> cps,
                        raised |-> FALSE, result |-> <<>>]
       ELSE /\ cps' = cps
            /\ call' = [op |-> "add", value |-> value, before |-> cps,
                        raised |-> TRUE, result |-> <<>>]
    /\ UNCHANGED <<parseVars, registryVars, heap>>

\* s.discard(value): raises ValueError before touching the list, or runs the
\* loop.
Discard(value) ==
    /\ call = NoCall
    /\ IF is_code_point(value)
       THEN /\ cps' = discard(cps, value)
            /\ call' = [op |-> "discard", value |-> value, before |-> cps,
                        raised |-> FALSE, result |-> <<>>]
       ELSE /\ cps' = cps
            /\ call' = [op |-> "discard", value |-> value, before |-> cps,
                        raised |-> TRUE, result |-> <<>>]
    /\ UNCHANGED <<parseVars, registryVars, heap>>

\* s | s: the result is a new set, s is not modified.
OrSelf ==
    /\ call = NoCall
    /\ cps' = cps
    /\ call' = [op |-> "or", value |-> <<>>, before |-> cps,
                raised |-> FALSE, result |-> union(cps, cps)]
    /\ UNCHANGED <<parseVars, registryVars, heap>>

\* s | other, s - other, s & other, s ^ other for another set other: the
\* result is a new set, neither operand is modified.
Or(other) ==
    /\ call = NoCall
    /\ cps' = cps
    /\ call' = [op |-> "or", value |-> other, before |-> cps,
                raised |-> FALSE, result |-> union(cps, other)]
    /\ UNCHANGED <<parseVars, registryVars, heap>>

Sub(other) ==
    /\ call = NoCall
    /\ cps' = cps
    /\ call' = [op |-> "sub", value |-> other, before |-> cps,
                raised |-> FALSE, result |-> sub(cps, other)]
    /\ UNCHANGED <<parseVars, registryVars, heap>>

And(other) ==
    /\ call = NoCall
    /\ cps' = cps
    /\ call' = [op |-> "and", value |-> other, before |-> cps,
                raised |-> FALSE, result |-> and_(cps, other)]
    /\ UNCHANGED <<parseVars, registryVars, heap>>

Xor(other) ==
    /\ call = NoCall
    /\ cps' = cps
    /\ call' = [op |-> "xor", value |-> other, before |-> cps,
                raised |-> FALSE, result |-> xor(cps, other)]
    /\ UNCHANGED <<parseVars, registryVars, heap>>

\* s ^= s: the operand is the set itself, which is modified.
IxorSelf ==
    /\ call = NoCall
    /\ cps' = ixor_subset(cps, cps, TRUE)
    /\ call' = [op |-> "ixor", value |-> cps, before |-> cps,
                raised |-> FALSE, result |-> <<>>]
    /\ UNCHANGED <<parseVars, registryVars, heap>>

\* self | other, self - other, self & other, self ^ other,
\* self.difference(other) and self.copy() for two sets held by identity; other
\* may be self.
ObjectOr(other) ==
    /\ return_obj(ior(obj.lists[obj.ref], obj.lists[other]))
    /\ UNCHANGED <<cps, call, parseVars, registryVars>>

ObjectSub(other) ==
    /\ return_obj(isub(obj.lists[obj.ref], obj.lists[other]))
    /\ UNCHANGED <<cps, call, parseVars, registryVars>>

ObjectAnd(other) ==
    /\ return_obj(iand(obj.lists[obj.ref], obj.lists[other]))
    /\ UNCHANGED <<cps, call, parseVars, registryVars>>

ObjectXor(other) ==
    /\ return_obj(ixor(obj.lists[obj.ref], obj.lists[other]))
    /\ UNCHANGED <<cps, call, parseVars, registryVars>>

ObjectDifference(other) ==
    /\ return_obj(difference_update(obj.lists[obj.ref], obj.lists[other]))
    /\ UNCHANGED <<cps, call, parseVars, registryVars>>

ObjectCopy ==
    /\ return_obj(obj.lists[obj.ref])
    /\ UNCHANGED <<cps, call, parseVars, registryVars>>

\* The caller mutates the set an operator has returned: result.add(value)
\* and result.discard(value) for a valid value.
ResultAdd(value) ==
    /\ heap.result # 0
    /\ is_code_point(value)
    /\ heap' = [heap EXCEPT !.lists[heap.result] = add(@, value)]
    /\ UNCHANGED <<cps, call, parseVars, registryVars>>

ResultDiscard(value) ==
    /\ heap.result # 0
    /\ is_code_point(value)
    /\ heap' = [heap EXCEPT !.lists[heap.result] = discard(@, value)]
    /\ UNCHANGED <<cps, call, parseVars, registryVars>>

\* list(s), list(reversed(s)) and len(s): the ints yielded, or the length
\* as the only item of the result.
Iter ==
    /\ call = NoCall
    /\ cps' = cps
    /\ call' = [op |-> "iter", value |-> <<>>, before |-> cps,
                raised |-> FALSE, result |-> iter(cps)]
    /\ UNCHANGED <<parseVars, registryVars, heap>>

Reversed ==
    /\ call = NoCall
    /\ cps' = cps
    /\ call' = [op |-> "reversed", value |-> <<>>, before |-> cps,
                raised |-> FALSE, result |-> reversed(cps)]
    /\ UNCHANGED <<parseVars, registryVars, heap>>

Length ==
    /\ call = NoCall
    /\ cps' = cps
    /\ call' = [op |-> "len", value |-> <<>>, before |-> cps,
                raised |-> FALSE, result |-> <<len(cps)>>]
    /\ UNCHANGED <<parseVars, registryVars, heap>>

\* list(s.complement()): the items yielded, and whether the generator raised.
Complement ==
    /\ call = NoCall
    /\ cps' = cps
    /\ call' = [op |-> "complement", value |-> <<>>, before |-> cps,
                raised |-> complement(cps).raised,
                result |-> complement(cps).items]
    /\ UNCHANGED <<parseVars, registryVars, heap>>

\* UnicodeSubset(UnicodeSubset(s.complement()).complement()): the list of the
\* outer set, unless one of the two generators raised.
ComplementTwice ==
    /\ call = NoCall
    /\ cps' = cps
    /\ LET first == complement(cps)
           second == complement(from_iterable(first.items))
       IN call' = [op |-> "complement2", value |-> <<>>, before |-> cps,
                   raised |-> first.raised \/ second.raised,
                   result |-> IF first.raised \/ second.raised THEN <<>>
                              ELSE from_iterable(second.items)]
    /\ UNCHANGED <<parseVars, registryVars, heap>>

\* One run of the loop body of install_unicode_categories for a category
\* whose raw list is the list at hand: the patched list is the result.
Patch(exclude_cps, insert_cps) ==
    /\ call = NoCall
    /\ cps' = cps
    /\ call' = [op |-> "patch", value |-> <<exclude_cps, insert_cps>>,
                before |-> cps, raised |-> FALSE,
                result |-> patch(cps, exclude_cps, insert_cps)]
    /\ UNCHANGED <<parseVars, registryVars, heap>>

\* The caller has seen the outcome of the call and goes on.
Return ==
    /\ call # NoCall
    /\ call' = NoCall
    /\ cps' = cps
    /\ UNCHANGED <<parseVars, registryVars, heap>>

\* Every list of entries that is sorted and non-overlapping and starts at or
\* after code point lo: what UnicodeSubset(list) holds for such a list.
RECURSIVE sorted_lists(_)
sorted_lists(lo) ==
    {<<>>} \cup
    UNION {{<<e>> \o rest : rest \in sorted_lists(cp1_of(e))} :
           e \in {x \in Values : is_code_point(x) /\ cp0_of(x) >= lo}}

-----------------------------------------------------------------------------
(* The registries: install_unicode_categories, install_unicode_blocks,
   unicode_category *)

\* code_point_order, the sort key of the constructor and of the codepoints
\* setter: the start of the entry.
code_point_order(cp) == cp[1]

\* sorted(list, key=code_point_order) from entry k (1-based) on, into the
\* sorted list done; the sort is stable.
RECURSIVE sorted_from(_, _, _)
sorted_from(l, k, done) ==
    IF k > Len(l) THEN done
    ELSE LET after == Cardinality({i \in 1 .. Len(done) :
                          code_point_order(done[i]) <= code_point_order(l[k])})
         IN sorted_from(l, k + 1, list_insert(done, after, l[k]))

sorted(l) == sorted_from(l, 1, <<>>)

\* int(x) for a string of decimal digits, from digit k (1-based) on.
RECURSIVE int_from(_, _, _)
int_from(digits, k, n) ==
    IF k > Len(digits) THEN n
    ELSE int_from(digits, k + 1, 10 * n + digits[k])

\* tuple(int(x) for x in version.split('.')): a version string is held as
\* the sequence of its components, each the sequence of its digits.
version_tuple(version) ==
    [i \in 1 .. Len(version) |-> int_from(version[i], 1, 0)]

\* a < b for two tuples of ints: the first component that differs decides,
\* and a proper prefix is less.
RECURSIVE tuple_less_from(_, _, _)
tuple_less_from(a, b, i) ==
    IF i > Len(a) THEN i <= Len(b)
    ELSE IF i > Len(b) THEN FALSE
    ELSE IF a[i] # b[i] THEN a[i] < b[i]
    ELSE tuple_less_from(a, b, i + 1)

tuple_less(a, b) == tuple_less_from(a, b, 1)

\* python_max_version < the version a module names.
too_new(version) ==
    tuple_less(version_tuple(unidata_version), version_tuple(version))

\* "3.9", "3.10" and "4.0".
V_3_9 == <<<<3>>, <<9>>>>

V_3_10 == <<<<3>>, <<1, 0>>>>

V_4_0 == <<<<4>>, <<0>>>>

\* The keys of RAW_UNICODE_CATEGORIES the installer reads by name, in the
\* order of the dict.
category_names == <<"L", "M", "N", "Nd", "S">>

\* An empty dict.
empty_dict == [k \in {} |-> <<>>]

\* The (exclude_cps, insert_cps) pairs a module gives under
\* DIFF_CATEGORIES_VER_<version>.
diff_categories(version) ==
    IF version = V_3_9
    THEN [k \in {"N", "Nd"} |-> <<{<<3>>}, <<<<3, 5>>>>>>]
    ELSE IF version = V_3_10
    THEN [k \in {"L"} |-> <<{}, <<<<2>>>>>>]
    ELSE [k \in {"S"} |-> <<{<<4>>}, <<>>>>]

\* The DIFF_CATEGORIES_VER_ entries of a module in the order of its
\* __dict__: up to MaxDiffs of them, each version at most once.
MaxDiffs == 2

diff_sequences ==
    {d \in UNION {[1 .. n -> {V_3_9, V_3_10, V_4_0}] : n \in 0 .. MaxDiffs} :
        \A i, j \in 1 .. Len(d) : i # j => d[i] # d[j]}

\* The raw categories modules that may be installed.
RawCategories ==
    {[k \in {"L", "M", "N", "Nd", "S"} |->
         CASE k = "L" -> l [] k = "M" -> m [] k = "S" -> <<<<4>>>>
           [] OTHER -> <<<<3>>>>] :
     l \in {<<<<0>>>>, <<<<0, 2>>>>}, m \in {<<>>, <<<<1>>>>}}

CategoryModules ==
    [MIN_UNICODE_VERSION : {V_3_9, V_3_10},
     RAW_UNICODE_CATEGORIES : RawCategories,
     DIFFS : diff_sequences]

\* The raw categories modules without diffs.
PlainModules ==
    [MIN_UNICODE_VERSION : {V_3_9},
     RAW_UNICODE_CATEGORIES : RawCategories,
     DIFFS : {<<>>}]

\* unicode_block_key(name): upper case, without spaces, hyphens and
\* underscores, for the block names of the modules below.
unicode_block_key(name) ==
    CASE name \in {"Basic Latin", "basic-latin", "BASIC_LATIN", "BasicLatin"}
             -> "BASICLATIN"
      [] name \in {"Greek", "greek"} -> "GREEK"
      [] name = "Thai" -> "THAI"
      [] name \in {"NoBlock", "No_Block", "no-block"} -> "NOBLOCK"
      [] name = "Zzzz" -> "ZZZZ"
      [] OTHER -> name

\* A value of a raw blocks module or of the table of blocks: a str, that is
\* a class body, or a UnicodeSubset object, that is its identity and its
\* list.  The objects unicode_block constructs are numbered from 1; 0 is
\* the identity of the sets of the categories.
raw_str(body) == [type |-> "str", body |-> body]

subset_object(id, codepoints) ==
    [type |-> "UnicodeSubset", id |-> id, codepoints |-> codepoints]

\* The raw blocks modules that may be installed: RAW_UNICODE_BLOCKS maps
\* names to class bodies, and a DIFF_BLOCKS_VER_ entry does the same.  The
\* bodies are '\x01-\x02', '\x00\x02', '\x02-\x03' and the last character
\* of the code space.
BlockModules ==
    [MIN_UNICODE_VERSION : {V_3_9, V_3_10},
     RAW_UNICODE_BLOCKS :
         {[k \in {"Basic Latin"} |-> raw_str(<<1, HYPHEN, 2>>)],
          [k \in {"Basic Latin", "Thai"} |->
              IF k = "Thai" THEN raw_str(<<2, HYPHEN, 3>>)
              ELSE raw_str(<<0, 2>>)]},
     DIFFS : {<<>>,
              <<[version |-> V_3_10,
                 diff_blocks |->
                     [k \in {"greek"} |-> raw_str(<<maxunicode>>)]]>>}]

\* d1.update(d2) for two dicts.
dict_update(d1, d2) ==
    [k \in DOMAIN d1 \cup DOMAIN d2 |-> IF k \in DOMAIN d2 THEN d2[k] ELSE d1[k]]

\* d[key] = value.
dict_set(d, key, value) ==
    [k \in DOMAIN d \cup {key} |-> IF k = key THEN value ELSE d[k]]

\* The tables and shortcut sets at hand.
tables ==
    [categories |-> unicode_categories, blocks |-> unicode_blocks,
     D |-> D_SHORTCUT_SET, W |-> W_SHORTCUT_SET]

\* No install function is running and none has been called.
IdleInstall ==
    [pc |-> "idle", function |-> "none", raised |-> FALSE,
     raw_categories |-> empty_dict, diffs |-> <<>>, index |-> 0,
     applied |-> <<>>, old |-> empty_dict]

\* The install function at hand has returned: the record keeps the patched
\* raw categories of the last installation of categories.
returned == [IdleInstall EXCEPT !.raw_categories = install.raw_categories]

NoReader == [held |-> "none", found |-> FALSE, seen |-> <<>>, mutations |-> 0]

\* The body of one round of the loop over a diff: every category the diff
\* names is patched.
patch_categories(raw_categories, diff) ==
    [k \in DOMAIN raw_categories |->
        IF k \in DOMAIN diff
        THEN patch(raw_categories[k], diff[k][1], diff[k][2])
        ELSE raw_categories[k]]

\* Mutation of InstallCall: the table is cleared before the version check.
InstallCall_clear_first(module) ==
    /\ install.pc = "idle"
    /\ unicode_categories' = empty_dict
    /\ IF too_new(module.MIN_UNICODE_VERSION)
       THEN install' = [install EXCEPT
                            !.function = "install_unicode_categories",
                            !.raised = TRUE, !.old = tables]
       ELSE install' = [pc |-> "diffs",
                        function |-> "install_unicode_categories",
                        raised |-> FALSE,
                        raw_categories |-> module.RAW_UNICODE_CATEGORIES,
                        diffs |-> module.DIFFS, index |-> 1,
                        applied |-> <<>>, old |-> tables]
    /\ UNCHANGED <<unidata_version, unicode_blocks,
                   D_SHORTCUT_SET, W_SHORTCUT_SET, reader>>
    /\ UNCHANGED <<cps, call, parseVars, objects, lookup, heap>>

\* install_unicode_categories(module_name) up to the version check: it
\* raises ValueError, or goes on to the loop over the diffs.  applied is the
\* log of the diffs applied, old the tables at the time of the call.
InstallCall(module) ==
    /\ install.pc = "idle"
    /\ IF too_new(module.MIN_UNICODE_VERSION)
       THEN install' = [install EXCEPT
                            !.function = "install_unicode_categories",
                            !.raised = TRUE, !.old = tables]
       ELSE install' = [pc |-> "diffs",
                        function |-> "install_unicode_categories",
                        raised |-> FALSE,
                        raw_categories |-> module.RAW_UNICODE_CATEGORIES,
                        diffs |-> module.DIFFS, index |-> 1,
                        applied |-> <<>>, old |-> tables]
    /\ UNCHANGED <<unidata_version, unicode_categories, unicode_blocks,
                   D_SHORTCUT_SET, W_SHORTCUT_SET, reader>>
    /\ UNCHANGED <<cps, call, parseVars, objects, lookup, heap>>

\* One round of the loop over the DIFF_CATEGORIES_VER_ entries, in the order
\* of the module's __dict__: the loop ends, breaks at a diff whose version
\* is above the runtime's, or applies the diff.
InstallDiff ==
    /\ install.pc = "diffs"
    /\ IF install.index > Len(install.diffs)
          \/ too_new(install.diffs[install.index])
       THEN install' = [install EXCEPT !.pc = "clear"]
       ELSE install' =
                [install EXCEPT
                    !.raw_categories =
                        patch_categories(
                            @, diff_categories(install.diffs[install.index])),
                    !.applied = Append(@, install.diffs[install.index]),
                    !.index = @ + 1]
    /\ UNCHANGED <<unidata_version, unicode_categories, unicode_blocks,
                   D_SHORTCUT_SET, W_SHORTCUT_SET, reader>>
    /\ UNCHANGED <<cps, call, parseVars, objects, lookup, heap>>

\* _unicode_categories.clear(): the sets a caller holds are no longer those
\* of the table.
InstallClear ==
    /\ install.pc = "clear"
    /\ unicode_categories' = empty_dict
    /\ install' = [install EXCEPT !.pc = "populate", !.index = 1]
    /\ reader' = [NoReader EXCEPT !.mutations = reader.mutations]
    /\ UNCHANGED <<unidata_version, unicode_blocks, D_SHORTCUT_SET,
                   W_SHORTCUT_SET>>
    /\ UNCHANGED <<cps, call, parseVars, objects, lookup, heap>>

\* One round of the loop _unicode_categories[k] = UnicodeSubset(v).
InstallPopulate ==
    /\ install.pc = "populate"
    /\ LET k == category_names[install.index]
       IN unicode_categories' =
              dict_set(unicode_categories, k, sorted(install.raw_categories[k]))
    /\ install' = [install EXCEPT
                       !.pc = IF install.index = Len(category_names)
                              THEN "digits" ELSE "populate",
                       !.index = @ + 1]
    /\ UNCHANGED <<unidata_version, unicode_blocks, D_SHORTCUT_SET,
                   W_SHORTCUT_SET, reader>>
    /\ UNCHANGED <<cps, call, parseVars, objects, lookup, heap>>

\* D_SHORTCUT_SET.codepoints = unicode_category('Nd').codepoints.
InstallShortcutD ==
    /\ install.pc = "digits"
    /\ D_SHORTCUT_SET' = sorted(unicode_categories["Nd"])
    /\ install' = [install EXCEPT !.pc = "word"]
    /\ UNCHANGED <<unidata_version, unicode_categories, unicode_blocks,
                   W_SHORTCUT_SET, reader>>
    /\ UNCHANGED <<cps, call, parseVars, objects, lookup, heap>>

\* Mutation of InstallShortcutW: the chain stops at N.
InstallShortcutW_without_S ==
    /\ install.pc = "word"
    /\ W_SHORTCUT_SET' =
           sorted(unicode_categories["L"] \o unicode_categories["M"]
                  \o unicode_categories["N"])
    /\ install' = returned
    /\ UNCHANGED <<unidata_version, unicode_categories, unicode_blocks,
                   D_SHORTCUT_SET, reader>>
    /\ UNCHANGED <<cps, call, parseVars, objects, lookup, heap>>

\* W_SHORTCUT_SET.codepoints = the chain of the lists of L, M, N and S; the
\* function returns.
InstallShortcutW ==
    /\ install.pc = "word"
    /\ W_SHORTCUT_SET' =
           sorted(unicode_categories["L"] \o unicode_categories["M"]
                  \o unicode_categories["N"] \o unicode_categories["S"])
    /\ install' = returned
    /\ UNCHANGED <<unidata_version, unicode_categories, unicode_blocks,
                   D_SHORTCUT_SET, reader>>
    /\ UNCHANGED <<cps, call, parseVars, objects, lookup, heap>>

\* raw_blocks after the loop over the DIFF_BLOCKS_VER_ entries from entry i
\* (1-based) on: the loop breaks at a diff whose version is above the
\* runtime's.
RECURSIVE updated_blocks(_, _, _)
updated_blocks(raw_blocks, diffs, i) ==
    IF i > Len(diffs) \/ too_new(diffs[i].version) THEN raw_blocks
    ELSE updated_blocks(dict_update(raw_blocks, diffs[i].diff_blocks),
                        diffs, i + 1)

\* install_unicode_blocks(module_name): it raises ValueError, or replaces
\* the table by the raw blocks under their keys.
InstallBlocks(module) ==
    /\ install.pc = "idle"
    /\ IF too_new(module.MIN_UNICODE_VERSION)
       THEN /\ install' = [install EXCEPT
                               !.function = "install_unicode_blocks",
                               !.raised = TRUE, !.old = tables]
            /\ unicode_blocks' = unicode_blocks
       ELSE /\ install' = returned
            /\ LET raw_blocks == updated_blocks(module.RAW_UNICODE_BLOCKS,
                                                module.DIFFS, 1)
               IN unicode_blocks' =
                      [key \in {unicode_block_key(k) : k \in DOMAIN raw_blocks}
                          |-> raw_blocks[CHOOSE k \in DOMAIN raw_blocks :
                                             unicode_block_key(k) = key]]
    /\ UNCHANGED <<unidata_version, unicode_categories, D_SHORTCUT_SET,
                   W_SHORTCUT_SET, reader>>
    /\ UNCHANGED <<cps, call, parseVars, objects, lookup, heap>>

\* unicode_category(name): the set of the table itself, or KeyError.
Lookup(name) ==
    /\ reader' =
           IF name \in DOMAIN unicode_categories
           THEN [reader EXCEPT !.held = name, !.found = TRUE,
                               !.seen = unicode_categories[name]]
           ELSE [reader EXCEPT !.held = "none", !.found = FALSE,
                               !.seen = <<>>]
    /\ UNCHANGED <<unidata_version, unicode_categories, unicode_blocks,
                   D_SHORTCUT_SET, W_SHORTCUT_SET, install>>
    /\ UNCHANGED <<cps, call, parseVars, objects, lookup, heap>>

\* The caller mutates the set unicode_category returned: subset.add(value)
\* and subset.discard(value) for a valid value, at most MaxMutations times.
MaxMutations == 1

HeldAdd(value) ==
    /\ reader.held # "none"
    /\ reader.mutations < MaxMutations
    /\ is_code_point(value)
    /\ unicode_categories' =
           [unicode_categories EXCEPT ![reader.held] = add(@, value)]
    /\ reader' = [reader EXCEPT !.mutations = @ + 1]
    /\ UNCHANGED <<unidata_version, unicode_blocks, D_SHORTCUT_SET,
                   W_SHORTCUT_SET, install>>
    /\ UNCHANGED <<cps, call, parseVars, objects, lookup, heap>>

HeldDiscard(value) ==
    /\ reader.held # "none"
    /\ reader.mutations < MaxMutations
    /\ is_code_point(value)
    /\ unicode_categories' =
           [unicode_categories EXCEPT ![reader.held] = discard(@, value)]
    /\ reader' = [reader EXCEPT !.mutations = @ + 1]
    /\ UNCHANGED <<unidata_version, unicode_blocks, D_SHORTCUT_SET,
                   W_SHORTCUT_SET, install>>
    /\ UNCHANGED <<cps, call, parseVars, objects, lookup, heap>>

\* UnicodeSubset(body) for a str: lines 127-135.  The outcome holds the
\* exception raised, if any, and the list of the new set.  update sorts the
\* items the parser yields before the first add, so a RegexError of the
\* parser comes before any ValueError of add.
from_str(body) ==
    LET parsed == iterparse_character_subset(body, FALSE)
    IN IF body = <<>> THEN [raised |-> "none", codepoints |-> <<>>]
       ELSE IF parsed.raised THEN [raised |-> "RegexError", codepoints |-> <<>>]
       ELSE IF \E i \in 1 .. Len(parsed.items) : ~is_code_point(parsed.items[i])
       THEN [raised |-> "ValueError", codepoints |-> <<>>]
       ELSE [raised |-> "none", codepoints |-> update(<<>>, parsed.items)]

\* Lines 529-530: for v in _unicode_blocks.values(): no_block -= v, from the
\* i-th key of keys on.  __isub__ takes the list of a UnicodeSubset operand
\* and constructs a set from a str operand (lines 379-382).
RECURSIVE no_block_from(_, _, _)
no_block_from(no_block, keys, i) ==
    IF i > Len(keys) THEN [raised |-> "none", codepoints |-> no_block]
    ELSE LET v == unicode_blocks[keys[i]]
             other == IF v.type = "UnicodeSubset"
                      THEN [raised |-> "none", codepoints |-> v.codepoints]
                      ELSE from_str(v.body)
         IN IF other.raised # "none" THEN other
            ELSE no_block_from(isub(no_block, other.codepoints), keys, i + 1)

\* No set: what a call that raised has returned.
NoSubset == [type |-> "none"]

\* Mutation of unicode_block: the special block is computed at every lookup
\* of its name, cached or not.
unicode_block_recomputed(name, keys) ==
    LET key == unicode_block_key(name)
        unchanged == [blocks |-> unicode_blocks, objects |-> objects]
        no_block == no_block_from(sorted(<<<<0, maxunicode + 1>>>>),
                                  SelectSeq(keys, LAMBDA k : k # "NOBLOCK"), 1)
        built == IF key \in DOMAIN unicode_blocks
                 THEN from_str(unicode_blocks[key].body)
                 ELSE [raised |-> "none", codepoints |-> <<>>]
        new(codepoints) ==
            [raised |-> "none",
             subset |-> subset_object(objects + 1, codepoints),
             blocks |-> dict_set(unicode_blocks, key,
                                 subset_object(objects + 1, codepoints)),
             objects |-> objects + 1]
    IN IF key = "NOBLOCK"
       THEN IF no_block.raised # "none"
            THEN [raised |-> no_block.raised, subset |-> NoSubset] @@ unchanged
            ELSE new(no_block.codepoints)
       ELSE IF key \notin DOMAIN unicode_blocks
       THEN [raised |-> "KeyError", subset |-> NoSubset] @@ unchanged
       ELSE IF unicode_blocks[key].type # "UnicodeSubset"
       THEN IF built.raised # "none"
            THEN [raised |-> built.raised, subset |-> NoSubset] @@ unchanged
            ELSE new(built.codepoints)
       ELSE [raised |-> "none", subset |-> unicode_blocks[key]] @@ unchanged

\* Mutation of unicode_block: a raw entry is materialized for the caller but
\* the table keeps the raw entry.
unicode_block_uncached(name, keys) ==
    LET key == unicode_block_key(name)
        unchanged == [blocks |-> unicode_blocks, objects |-> objects]
        no_block == no_block_from(sorted(<<<<0, maxunicode + 1>>>>), keys, 1)
        built == IF key \in DOMAIN unicode_blocks
                 THEN from_str(unicode_blocks[key].body)
                 ELSE [raised |-> "none", codepoints |-> <<>>]
        new(codepoints) ==
            [raised |-> "none",
             subset |-> subset_object(objects + 1, codepoints),
             blocks |-> dict_set(unicode_blocks, key,
                                 subset_object(objects + 1, codepoints)),
             objects |-> objects + 1]
    IN IF key \notin DOMAIN unicode_blocks
       THEN IF key # "NOBLOCK"
            THEN [raised |-> "KeyError", subset |-> NoSubset] @@ unchanged
            ELSE IF no_block.raised # "none"
            THEN [raised |-> no_block.raised, subset |-> NoSubset] @@ unchanged
            ELSE new(no_block.codepoints)
       ELSE IF unicode_blocks[key].type # "UnicodeSubset"
       THEN IF built.raised # "none"
            THEN [raised |-> built.raised, subset |-> NoSubset] @@ unchanged
            ELSE [new(built.codepoints) EXCEPT !.blocks = unicode_blocks]
       ELSE [raised |-> "none", subset |-> unicode_blocks[key]] @@ unchanged

\* unicode_block(name), lines 513-537, where keys is the order in which
\* _unicode_blocks.values() gives the entries.  The outcome holds the
\* exception raised, if any, the set returned, the table and the number of
\* sets constructed as the call leaves them.
unicode_block(name, keys) ==
    LET key == unicode_block_key(name)
        unchanged == [blocks |-> unicode_blocks, objects |-> objects]
        no_block == no_block_from(sorted(<<<<0, maxunicode + 1>>>>), keys, 1)
        built == IF key \in DOMAIN unicode_blocks
                 THEN from_str(unicode_blocks[key].body)
                 ELSE [raised |-> "none", codepoints |-> <<>>]
        new(codepoints) ==
            [raised |-> "none",
             subset |-> subset_object(objects + 1, codepoints),
             blocks |-> dict_set(unicode_blocks, key,
                                 subset_object(objects + 1, codepoints)),
             objects |-> objects + 1]
    IN IF key \notin DOMAIN unicode_blocks
       THEN IF key # "NOBLOCK"
            THEN [raised |-> "KeyError", subset |-> NoSubset] @@ unchanged
            ELSE IF no_block.raised # "none"
            THEN [raised |-> no_block.raised, subset |-> NoSubset] @@ unchanged
            ELSE new(no_block.codepoints)
       ELSE IF unicode_blocks[key].type # "UnicodeSubset"
       THEN IF built.raised # "none"
            THEN [raised |-> built.raised, subset |-> NoSubset] @@ unchanged
            ELSE new(built.codepoints)
       ELSE [raised |-> "none", subset |-> unicode_blocks[key]] @@ unchanged

\* unicode_category(name), lines 443-445, as an outcome of the same shape.
unicode_category(name) ==
    IF name \in DOMAIN unicode_categories
    THEN [raised |-> "none",
          subset |-> subset_object(0, unicode_categories[name])]
    ELSE [raised |-> "KeyError", subset |-> NoSubset]

\* name[:2] == 'Is' and name[2:] for the names looked up below.
Is_prefixed(name) ==
    name \in {"Is", "IsBasicLatin", "IsNoBlock", "IsGreek", "IsZzzz", "IsL"}

without_prefix(name) ==
    CASE name = "Is" -> ""
      [] name = "IsBasicLatin" -> "BasicLatin"
      [] name = "IsNoBlock" -> "NoBlock"
      [] name = "IsGreek" -> "Greek"
      [] name = "IsZzzz" -> "Zzzz"
      [] name = "IsL" -> "L"
      [] OTHER -> name

\* Mutation of get_unicode_subset: a name that is not a block is looked up
\* as a category as well.
get_unicode_subset_falls_back(name, keys) ==
    LET block == unicode_block(without_prefix(name), keys)
        category == unicode_category(name)
        fallback == unicode_category(without_prefix(name))
        unchanged == [blocks |-> unicode_blocks, objects |-> objects]
    IN IF Is_prefixed(name)
       THEN IF block.raised = "KeyError"
            THEN IF fallback.raised = "KeyError"
                 THEN [block EXCEPT !.raised = "RegexError: block"]
                 ELSE fallback @@ unchanged
            ELSE block
       ELSE IF category.raised = "KeyError"
            THEN [category EXCEPT !.raised = "RegexError: category"]
                 @@ unchanged
            ELSE category @@ unchanged

\* get_unicode_subset(name), lines 573-584: a KeyError of the lookup becomes
\* a RegexError whose message names the table.
get_unicode_subset(name, keys) ==
    LET block == unicode_block(without_prefix(name), keys)
        category == unicode_category(name)
        unchanged == [blocks |-> unicode_blocks, objects |-> objects]
    IN IF Is_prefixed(name)
       THEN IF block.raised = "KeyError"
            THEN [block EXCEPT !.raised = "RegexError: block"]
            ELSE block
       ELSE IF category.raised = "KeyError"
            THEN [category EXCEPT !.raised = "RegexError: category"]
                 @@ unchanged
            ELSE category @@ unchanged

\* The orders in which a dict with these keys may give its entries.
orders(keys) ==
    {o \in [1 .. Cardinality(keys) -> keys] :
        \A i, j \in DOMAIN o : i # j => o[i] # o[j]}

\* No lookup has returned since the caller last looked.
NoLookup ==
    [function |-> "none", name |-> "", raised |-> "none", subset |-> NoSubset,
     before |-> [blocks |-> empty_dict, categories |-> empty_dict,
                 objects |-> 0]]

\* The bound on the sets unicode_block constructs in one run.
MaxObjects == 3

\* A caller calls unicode_block(name) and gets a set or an exception;
\* before is the state of the registry at the time of the call.
UnicodeBlock(name) ==
    /\ lookup = NoLookup
    /\ \E keys \in orders(DOMAIN unicode_blocks) :
         LET outcome == unicode_block(name, keys)
         IN /\ outcome.objects <= MaxObjects
            /\ unicode_blocks' = outcome.blocks
            /\ objects' = outcome.objects
            /\ lookup' = [function |-> "unicode_block", name |-> name,
                          raised |-> outcome.raised, subset |-> outcome.subset,
                          before |-> [blocks |-> unicode_blocks,
                                      categories |-> unicode_categories,
                                      objects |-> objects]]
    /\ UNCHANGED <<unidata_version, unicode_categories, D_SHORTCUT_SET,
                   W_SHORTCUT_SET, install, reader>>
    /\ UNCHANGED <<cps, call, parseVars, heap>>

\* A caller calls get_unicode_subset(name).
GetUnicodeSubset(name) ==
    /\ lookup = NoLookup
    /\ \E keys \in orders(DOMAIN unicode_blocks) :
         LET outcome == get_unicode_subset(name, keys)
         IN /\ outcome.objects <= MaxObjects
            /\ unicode_blocks' = outcome.blocks
            /\ objects' = outcome.objects
            /\ lookup' = [function |-> "get_unicode_subset", name |-> name,
                          raised |-> outcome.raised, subset |-> outcome.subset,
                          before |-> [blocks |-> unicode_blocks,
                                      categories |-> unicode_categories,
                                      objects |-> objects]]
    /\ UNCHANGED <<unidata_version, unicode_categories, D_SHORTCUT_SET,
                   W_SHORTCUT_SET, install, reader>>
    /\ UNCHANGED <<cps, call, parseVars, heap>>

\* The caller has seen the outcome of the lookup and goes on.
LookupReturn ==
    /\ lookup # NoLookup
    /\ lookup' = NoLookup
    /\ UNCHANGED <<unidata_version, unicode_categories, unicode_blocks,
                   D_SHORTCUT_SET, W_SHORTCUT_SET, install, reader, objects>>
    /\ UNCHANGED <<cps, call, parseVars, heap>>

\* The module as loaded up to the first call of an install function: the
\* tables are empty, D_SHORTCUT_SET and W_SHORTCUT_SET are UnicodeSubset().
RegistryEmpty ==
    /\ unicode_categories = empty_dict
    /\ unicode_blocks = empty_dict
    /\ D_SHORTCUT_SET = <<>>
    /\ W_SHORTCUT_SET = <<>>
    /\ install = IdleInstall
    /\ reader = NoReader
    /\ objects = 0
    /\ lookup = NoLookup
    /\ heap = NoHeap

\* The operands of the set algebra: the sorted, non-overlapping lists over
\* the code points 0 .. MaxOperand.
MaxOperand == 2

operand_lists ==
    {l \in sorted_lists(0) : \A i \in 1 .. Len(l) : cp1_of(l[i]) <= MaxOperand + 1}

\* The lists UnicodeSubset(list) and the codepoints setter can hold: up to n
\* valid entries in ascending order of their start, sorted(list,
\* key=code_point_order) of any list of valid entries; entries may overlap.
MaxEntries == 3

RECURSIVE raw_lists(_, _)
raw_lists(lo, n) ==
    {<<>>} \cup
    (IF n = 0 THEN {}
     ELSE UNION {{<<e>> \o rest : rest \in raw_lists(cp0_of(e), n - 1)} :
                 e \in {x \in Values : is_code_point(x) /\ cp0_of(x) >= lo}})

\* The insertion lists of a diff: the sorted, non-overlapping lists over the
\* code points 0 .. MaxOperand, which may overlap the list they patch.
insert_lists == operand_lists

\* The entries of a list, as a set.
entries(l) == {l[i] : i \in 1 .. Len(l)}

-----------------------------------------------------------------------------
(* Specifications *)

\* The bound on the class bodies parsed: every body over Alphabet of up to
\* MaxLen characters, alone or after the prefix RangeThenHyphen.
MaxLen == 4

\* ( - [ \ ] a d
Alphabet == {40, HYPHEN, 91, BACKSLASH, 93, 97, 100}

\* a-a\- : a range followed by an escaped hyphen.
RangeThenHyphen == <<97, HYPHEN, 97, BACKSLASH, HYPHEN>>

strings(alphabet, n) == UNION {[1 .. m -> alphabet] : m \in 0 .. n}

Bodies ==
    strings(Alphabet, MaxLen)
    \cup {RangeThenHyphen \o t : t \in strings(Alphabet, MaxLen)}

\* No parse is running.
ParserIdle ==
    /\ s = <<>>
    /\ expand_ranges = FALSE
    /\ pos = 0
    /\ escaped = FALSE
    /\ on_range = FALSE
    /\ char = -1
    /\ out = <<>>
    /\ pc = "idle"
    /\ error = NoError
    /\ step = "none"
    /\ prev = NoOutcome
    /\ unidata_version = V_3_9
    /\ RegistryEmpty

\* UnicodeSubset(): an empty set.
Init ==
    /\ cps = <<>>
    /\ call = NoCall
    /\ ParserIdle

\* UnicodeSubset(list) for a sorted, non-overlapping list.
InitSorted ==
    /\ cps \in sorted_lists(0)
    /\ call = NoCall
    /\ ParserIdle

\* UnicodeSubset(list) for a sorted, non-overlapping list over 0 .. MaxOperand.
InitAlgebra ==
    /\ cps \in operand_lists
    /\ call = NoCall
    /\ ParserIdle

\* UnicodeSubset(list) for any list of up to MaxEntries valid entries.
InitRaw ==
    /\ cps \in raw_lists(0, MaxEntries)
    /\ call = NoCall
    /\ ParserIdle

\* iterparse_character_subset(body): lines 36-40.
InitParse ==
    /\ cps = <<>>
    /\ call = NoCall
    /\ s \in Bodies
    /\ expand_ranges = FALSE
    /\ pos = 0
    /\ escaped = FALSE
    /\ on_range = FALSE
    /\ char = -1
    /\ out = <<>>
    /\ pc = "loop"
    /\ error = NoError
    /\ step = "none"
    /\ prev = NoOutcome
    /\ unidata_version = V_3_9
    /\ RegistryEmpty

Next ==
    \/ \E value \in Values : Add(value)
    \/ \E value \in Values : Discard(value)
    \/ OrSelf
    \/ Return

NextAlgebra ==
    \/ \E other \in operand_lists : Or(other)
    \/ \E other \in operand_lists : Sub(other)
    \/ \E other \in operand_lists : And(other)
    \/ \E other \in operand_lists : Xor(other)
    \/ Return

NextComplement ==
    \/ Complement
    \/ ComplementTwice
    \/ Return

NextRaw ==
    \/ Complement
    \/ Return

NextPatch ==
    \/ \E exclude_cps \in SUBSET entries(cps), insert_cps \in insert_lists :
           Patch(exclude_cps, insert_cps)
    \/ Return

\* The module is loaded, under a runtime of Unicode version 3.9 or 3.10.
InitRegistry ==
    /\ cps = <<>>
    /\ call = NoCall
    /\ s = <<>>
    /\ expand_ranges = FALSE
    /\ pos = 0
    /\ escaped = FALSE
    /\ on_range = FALSE
    /\ char = -1
    /\ out = <<>>
    /\ pc = "idle"
    /\ error = NoError
    /\ step = "none"
    /\ prev = NoOutcome
    /\ unidata_version \in {V_3_9, V_3_10}
    /\ RegistryEmpty

NextInstall ==
    \/ \E module \in CategoryModules : InstallCall(module)
    \/ InstallDiff
    \/ InstallClear
    \/ InstallPopulate
    \/ InstallShortcutD
    \/ InstallShortcutW
    \/ \E module \in BlockModules : InstallBlocks(module)

NextAlias ==
    \/ \E module \in PlainModules : InstallCall(module)
    \/ InstallDiff
    \/ InstallClear
    \/ InstallPopulate
    \/ InstallShortcutD
    \/ InstallShortcutW
    \/ \E name \in {"L", "Nd", "Lu"} : Lookup(name)
    \/ \E value \in Values : HeldAdd(value)
    \/ \E value \in Values : HeldDiscard(value)

\* The names of blocks the callers look up.
BlockNames == {"NoBlock", "no-block", "Basic Latin", "basic-latin", "Thai",
               "Greek", "Zzzz"}

\* The names the callers resolve.
SubsetNames == {"Is", "IsBasicLatin", "IsNoBlock", "IsGreek", "IsZzzz", "IsL",
                "L", "Nd", "Greek", "Zzzz", ""}

NextBlocks ==
    \/ \E module \in BlockModules : InstallBlocks(module)
    \/ \E name \in BlockNames : UnicodeBlock(name)
    \/ LookupReturn

\* The module as loaded up to the call of install_unicode_blocks: a raw
\* categories module without diffs has been installed, no blocks yet.
InitInstalled ==
    /\ cps = <<>>
    /\ call = NoCall
    /\ s = <<>>
    /\ expand_ranges = FALSE
    /\ pos = 0
    /\ escaped = FALSE
    /\ on_range = FALSE
    /\ char = -1
    /\ out = <<>>
    /\ pc = "idle"
    /\ error = NoError
    /\ step = "none"
    /\ prev = NoOutcome
    /\ unidata_version \in {V_3_9, V_3_10}
    /\ \E module \in PlainModules :
         LET raw == module.RAW_UNICODE_CATEGORIES
         IN /\ unicode_categories = [k \in DOMAIN raw |-> sorted(raw[k])]
            /\ D_SHORTCUT_SET = sorted(raw["Nd"])
            /\ W_SHORTCUT_SET =
                   sorted(sorted(raw["L"]) \o sorted(raw["M"])
                          \o sorted(raw["N"]) \o sorted(raw["S"]))
            /\ install = [IdleInstall EXCEPT !.raw_categories = raw]
    /\ unicode_blocks = empty_dict
    /\ reader = NoReader
    /\ objects = 0
    /\ lookup = NoLookup
    /\ heap = NoHeap

NextResolve ==
    \/ \E module \in BlockModules : InstallBlocks(module)
    \/ \E name \in SubsetNames : GetUnicodeSubset(name)
    \/ LookupReturn

\* add and discard, and the set combined with itself: s & s, s - s, s ^ s
\* and s ^= s.
NextSelf ==
    \/ \E value \in Values : Add(value)
    \/ \E value \in Values : Discard(value)
    \/ And(cps)
    \/ Sub(cps)
    \/ Xor(cps)
    \/ IxorSelf
    \/ Return

NextIterate ==
    \/ Iter
    \/ Reversed
    \/ Length
    \/ Return

\* The lists of the two sets a caller combines: empty, ints, ranges, and
\* both, up to the end of the code space.
object_lists ==
    {<<>>, <<<<0>>>>, <<<<maxunicode>>>>, <<<<0, 2>>>>, <<<<0>>, <<2>>>>,
     <<<<1, maxunicode + 1>>>>, <<<<0>>, <<2, maxunicode + 1>>>>}

\* Two sets constructed from these lists, held by identity.
InitObjects ==
    /\ cps = <<>>
    /\ call = NoCall
    /\ s = <<>>
    /\ expand_ranges = FALSE
    /\ pos = 0
    /\ escaped = FALSE
    /\ on_range = FALSE
    /\ char = -1
    /\ out = <<>>
    /\ pc = "idle"
    /\ error = NoError
    /\ step = "none"
    /\ prev = NoOutcome
    /\ unidata_version = V_3_9
    /\ unicode_categories = empty_dict
    /\ unicode_blocks = empty_dict
    /\ D_SHORTCUT_SET = <<>>
    /\ W_SHORTCUT_SET = <<>>
    /\ install = IdleInstall
    /\ reader = NoReader
    /\ objects = 0
    /\ lookup = NoLookup
    /\ heap \in [lists : object_lists \X object_lists, result : {0}]

NextObjects ==
    \/ \E other \in {SelfSet, OtherSet} : ObjectOr(other)
    \/ \E other \in {SelfSet, OtherSet} : ObjectSub(other)
    \/ \E other \in {SelfSet, OtherSet} : ObjectAnd(other)
    \/ \E other \in {SelfSet, OtherSet} : ObjectXor(other)
    \/ \E other \in {SelfSet, OtherSet} : ObjectDifference(other)
    \/ ObjectCopy
    \/ \E value \in Values : ResultAdd(value)
    \/ \E value \in Values : ResultDiscard(value)

NextAdd ==
    \/ \E value \in Values : Add(value)
    \/ Return

NextParse ==
    \/ First
    \/ HyphenLiteral
    \/ Range
    \/ Meta
    \/ Bracket
    \/ Backslash
    \/ Other
    \/ Finish
    \/ ParseExpanded

\* A set built from the empty set by add, discard and s | s.
Spec == Init /\ [][Next]_vars

\* A set built from the empty set by add alone.
SpecAdd == Init /\ [][NextAdd]_vars

\* A set constructed from any sorted, non-overlapping list, then add, discard
\* and s | s.
SpecSorted == InitSorted /\ [][Next]_vars

\* A class body parsed with expand_ranges False and then True.
SpecParse == InitParse /\ [][NextParse]_vars

\* Two sorted, non-overlapping sets combined by |, -, & and ^.
SpecAlgebra == InitAlgebra /\ [][NextAlgebra]_vars

\* The complement, and the complement of the complement, of a set
\* constructed from any sorted, non-overlapping list.
SpecComplement == InitSorted /\ [][NextComplement]_vars

\* The complement of a set constructed from any list of valid entries.
SpecRaw == InitRaw /\ [][NextRaw]_vars

\* A sorted, non-overlapping raw category list patched by one diff.
SpecPatch == InitAlgebra /\ [][NextPatch]_vars

\* Raw categories and raw blocks modules installed one call after the other.
SpecInstall == InitRegistry /\ [][NextInstall]_vars

\* Raw categories modules installed, and a caller that looks categories up
\* and mutates the sets it gets.
SpecAlias == InitRegistry /\ [][NextAlias]_vars

\* A set built from the empty set by add and discard, and combined with
\* itself.
SpecSelf == Init /\ [][NextSelf]_vars

\* A set constructed from any sorted, non-overlapping list, iterated forward
\* and backward and measured, again and again.
SpecIterate == InitSorted /\ [][NextIterate]_vars

\* Two sets combined by the operators that return a new set, and the set
\* returned mutated by the caller.
SpecObjects == InitObjects /\ [][NextObjects]_vars

\* Raw blocks modules installed, and a caller that looks blocks up.
SpecBlocks == InitRegistry /\ [][NextBlocks]_vars

\* Raw blocks modules installed over installed categories, and a caller that
\* resolves names of blocks and of categories.
SpecResolve == InitInstalled /\ [][NextResolve]_vars

-----------------------------------------------------------------------------
(* Properties of the set *)

\* cp is a member of the set a list stands for: it lies in one of the entries.
covers(l, cp) ==
    \E i \in 1 .. Len(l) : cp0_of(l[i]) <= cp /\ cp < cp1_of(l[i])

\* cp lies in the half-open range a value stands for.
in_value(value, cp) == start_of(value) <= cp /\ cp < end_of(value)

\* C1: after any sequence of valid add and discard calls from the empty set,
\* the list is sorted ascending by start, no two entries overlap (each
\* entry's end is <= the next entry's start), and every entry satisfies
\* 0 <= lo < hi <= maxunicode + 1.
C1_SortedNonOverlapping ==
    /\ \A i \in 1 .. Len(cps) :
           /\ 0 <= cp0_of(cps[i])
           /\ cp0_of(cps[i]) < cp1_of(cps[i])
           /\ cp1_of(cps[i]) <= maxunicode + 1
    /\ \A i \in 1 .. Len(cps) - 1 :
           /\ cp0_of(cps[i]) < cp0_of(cps[i + 1])
           /\ cp1_of(cps[i]) <= cp0_of(cps[i + 1])

\* A discard has just split one entry of a set of several in two, after adds.
C1_Witness ==
    /\ call.op = "discard" /\ ~call.raised
    /\ Len(call.before) >= 2
    /\ Len(cps) = Len(call.before) + 1

\* C2: after any sequence of valid add calls from the empty set no two
\* consecutive entries touch, and a range just added lies, with every entry
\* it overlapped or touched, in one single entry.
C2_AddMergesOnTouch ==
    /\ \A i \in 1 .. Len(cps) - 1 : cp1_of(cps[i]) # cp0_of(cps[i + 1])
    /\ (call.op = "add" /\ ~call.raised) =>
           Cardinality({i \in 1 .. Len(cps) :
                           /\ cp0_of(cps[i]) <= end_of(call.value)
                           /\ start_of(call.value) <= cp1_of(cps[i])}) = 1

\* C3: add is set union with a half-open range: after add(v) on a sorted,
\* non-overlapping set, cp is contained iff it was a member before or lies
\* in [lo, hi); hi itself is not made a member.
C3_AddIsUnion ==
    (call.op = "add" /\ ~call.raised) =>
        \A cp \in 0 .. maxunicode + 1 :
            contains(cps, cp) <=>
                (covers(call.before, cp) \/ in_value(call.value, cp))

\* A range has been added that starts inside one entry and ends inside a
\* later one, and its upper bound is not a member afterwards.
C3_Witness ==
    /\ call.op = "add" /\ ~call.raised
    /\ Len(call.value) = 2
    /\ Len(call.before) >= 2
    /\ covers(call.before, start_of(call.value))
    /\ ~covers(call.before, end_of(call.value) - 1)
    /\ ~covers(call.before, end_of(call.value))
    /\ \E i \in 2 .. Len(call.before) :
           in_value(call.value, cp0_of(call.before[i]))
    /\ ~contains(cps, end_of(call.value))

\* C4: discard is set difference: after discard(v) on a sorted,
\* non-overlapping set, cp is contained iff it was a member before and lies
\* outside [lo, hi).
C4_DiscardIsDifference ==
    (call.op = "discard" /\ ~call.raised) =>
        \A cp \in 0 .. maxunicode + 1 :
            contains(cps, cp) <=>
                (covers(call.before, cp) /\ ~in_value(call.value, cp))

\* A range has been discarded that clips the back of one entry, covers the
\* next whole and clips the front of a third.
C4_Witness ==
    /\ call.op = "discard" /\ ~call.raised
    /\ Len(call.before) >= 3
    /\ Len(cps) = Len(call.before) - 1
    /\ \E i \in 1 .. Len(call.before) - 2 :
           /\ cp0_of(call.before[i]) < start_of(call.value)
           /\ start_of(call.value) < cp1_of(call.before[i])
           /\ cp0_of(call.before[i + 2]) < end_of(call.value)
           /\ end_of(call.value) < cp1_of(call.before[i + 2])

\* C5: union is idempotent under __eq__, the comparison of the two lists:
\* A | A == A for every set built from the empty set by add and discard.
C5_UnionIdempotent ==
    call.op = "or" => call.result = call.before

\* C10: add and discard reject a malformed argument (an int outside
\* 0..maxunicode, a range without 0 <= lo < hi <= maxunicode + 1, the empty
\* range lo = hi included) and leave the list as it was.
C10_MalformedRejected ==
    LET v == call.value
        malformed ==
            IF Len(v) = 1
            THEN v[1] < 0 \/ v[1] > maxunicode
            ELSE v[1] < 0 \/ v[1] >= v[2] \/ v[2] > maxunicode + 1
    IN (call.op \in {"add", "discard"} /\ malformed) =>
           (call.raised /\ cps = call.before)

\* An empty range has been rejected by add on a set that is not empty.
C10_Witness ==
    /\ call.op = "add" /\ call.raised
    /\ Len(call.value) = 2 /\ call.value[1] = call.value[2]
    /\ call.value[1] \in 0 .. maxunicode
    /\ Len(cps) >= 1

-----------------------------------------------------------------------------
(* Properties of the parser *)

\* The code points a sequence of yielded items stands for: an int for
\* itself, a pair for its half-open range.
code_points_of(items) ==
    UNION {IF Len(items[i]) = 1 THEN {items[i][1]}
           ELSE items[i][1] .. items[i][2] - 1 : i \in 1 .. Len(items)}

\* The call has ended: the generator is exhausted or has raised.
Ended == pc \in {"done", "raised"}

\* The number of consecutive backslashes that end just before 1-based index
\* i of the body.
RECURSIVE backslashes_before(_)
backslashes_before(i) ==
    IF i > 1 /\ s[i - 1] = BACKSLASH THEN 1 + backslashes_before(i - 1) ELSE 0

\* The bracket at 1-based index i of the body is not escaped: the backslashes
\* before it, if any, escape one another.
bare_bracket(i) ==
    s[i] \in BRACKETS /\ backslashes_before(i) % 2 = 0

\* C6: the two output modes agree: parsing with expand_ranges True raises
\* iff parsing with expand_ranges False raises, and otherwise the scalars it
\* yields are the code points of the scalars and ranges the other yields.
C6_ModesAgree ==
    (Ended /\ expand_ranges) =>
        /\ (pc = "raised") <=> (prev.pc = "raised")
        /\ pc = "done" => code_points_of(out) = code_points_of(prev.out)

\* C7: in a body of more than one character every bracket that no backslash
\* escapes makes the parse fail, with a malformed-character error whose
\* position is that of such a bracket unless another error came first; a
\* body that is one bracket yields its scalar.
C7_BareBracketFails ==
    Ended =>
        /\ (length > 1 /\ \E i \in 1 .. length : bare_bracket(i)) =>
               pc = "raised"
        /\ (pc = "raised" /\ error.kind = "character") =>
               bare_bracket(error.position + 1)
        /\ (length = 1 /\ s[1] \in BRACKETS) =>
               (pc = "done" /\ out = <<<<s[1]>>>>)

\* The hyphen the loop is at, at index pos >= 1.
AtHyphen == AtIndex /\ pos >= 1 /\ at(pos) = HYPHEN

\* The step yields the literal hyphen and takes no further character.
yields_hyphen == out' = Append(out, <<HYPHEN>>) /\ pos' = pos + 1

\* The step is that of a range with lower bound x: it raises a
\* malformed-range error, or yields the range from x (its scalars above x
\* when expanding) up to some end.
starts_range(x) ==
    \/ pc' = "raised" /\ error'.kind = "range"
    \/ /\ pc' = "loop"
       /\ \E end_char \in Alphabet :
              out' = IF expand_ranges
                     THEN out \o scalars(x + 1, end_char + 1)
                     ELSE Append(out, <<x, end_char + 1>>)

\* C8: a hyphen at index >= 1 is yielded as the literal 45 iff it is escaped,
\* or is the last character, or immediately follows a just-completed range;
\* in every other case it starts a range whose lower bound is the character
\* before it.
C8_HyphenLiteralIff ==
    [][AtHyphen =>
        /\ yields_hyphen <=>
               (escaped \/ pos = length - 1 \/ step = "range")
        /\ ~yields_hyphen => starts_range(at(pos - 1))]_vars

\* The hyphen the loop is at starts a range: it is not escaped, not the last
\* character and does not immediately follow a just-completed range.
AtRangeHyphen ==
    AtHyphen /\ ~escaped /\ pos # length - 1 /\ step # "range"

\* The end of the range whose hyphen is at pos is a backslash followed by a
\* shorthand letter.
shorthand_end ==
    /\ at(pos + 1) = BACKSLASH
    /\ pos + 2 < length
    /\ at(pos + 2) \in SHORTHANDS

\* The end character y of the range whose hyphen is at pos: the character
\* after the hyphen, or the one a backslash there escapes.
range_end ==
    IF at(pos + 1) = BACKSLASH /\ pos + 2 < length
       /\ at(pos + 2) \in RANGE_END_ESCAPES
    THEN at(pos + 2)
    ELSE at(pos + 1)

\* C9: a range x-y whose x is above y, or whose end is a backslash followed
\* by a shorthand letter, raises a malformed-range error and yields nothing
\* for the range.
C9_BadRangeRaises ==
    [][(AtRangeHyphen /\ (shorthand_end \/ at(pos - 1) > range_end)) =>
        /\ pc' = "raised"
        /\ error'.kind = "range"
        /\ out' = out]_vars

-----------------------------------------------------------------------------
(* Properties of the set algebra and of complement *)

\* A list is sorted by start with no two entries overlapping, every entry a
\* valid code point or range.
sorted_non_overlapping(l) ==
    /\ \A i \in 1 .. Len(l) : is_code_point(l[i])
    /\ \A i \in 1 .. Len(l) - 1 :
           /\ cp0_of(l[i]) < cp0_of(l[i + 1])
           /\ cp1_of(l[i]) <= cp0_of(l[i + 1])

\* C11: for sorted, non-overlapping A and B and every code point cp,
\* cp in (A | B) iff cp in A or cp in B, cp in (A - B) iff cp in A and not
\* cp in B, cp in (A & B) iff cp in A and cp in B, cp in (A ^ B) iff cp is in
\* exactly one of A and B; and each result is sorted and non-overlapping.
C11_AlgebraIsSetAlgebra ==
    call.op \in {"or", "sub", "and", "xor"} =>
        /\ sorted_non_overlapping(call.result)
        /\ \A cp \in 0 .. maxunicode :
               LET a == contains(call.before, cp)
                   b == contains(call.value, cp)
                   r == contains(call.result, cp)
               IN CASE call.op = "or" -> r <=> (a \/ b)
                    [] call.op = "sub" -> r <=> (a /\ ~b)
                    [] call.op = "and" -> r <=> (a /\ b)
                    [] call.op = "xor" -> r <=> (a # b)

\* A & B for two sets of several entries each that share some code points
\* and each hold some the other does not.
C11_Witness ==
    /\ call.op = "and"
    /\ Len(call.before) >= 2 /\ Len(call.value) >= 2
    /\ call.result # <<>>
    /\ \E cp \in 0 .. maxunicode :
           contains(call.before, cp) /\ ~contains(call.value, cp)
    /\ \E cp \in 0 .. maxunicode :
           contains(call.value, cp) /\ ~contains(call.before, cp)

\* C12: for every sorted, non-overlapping set, complement() raises nothing
\* and yields valid items in ascending order, pairwise disjoint, that cover
\* exactly the code points of 0 .. maxunicode not in the set: every gap and
\* the final gap up to maxunicode inclusive, nothing above maxunicode, and
\* the whole code space for the empty set.
C12_ComplementCoversGaps ==
    call.op = "complement" =>
        /\ ~call.raised
        /\ \A i \in 1 .. Len(call.result) : is_code_point(call.result[i])
        /\ \A i \in 1 .. Len(call.result) - 1 :
               cp1_of(call.result[i]) <= cp0_of(call.result[i + 1])
        /\ \A cp \in 0 .. maxunicode :
               covers(call.result, cp) <=> ~covers(call.before, cp)
        /\ call.before = <<>> =>
               \A cp \in 0 .. maxunicode : covers(call.result, cp)

\* The complement of a set with a gap before its first entry, a gap between
\* two entries and a gap after its last entry.
C12_Witness ==
    /\ call.op = "complement"
    /\ Len(call.before) >= 2
    /\ Len(call.result) >= 3
    /\ covers(call.result, 0)
    /\ covers(call.result, maxunicode)

\* No two consecutive entries of a sorted, non-overlapping list touch.
merged(l) ==
    /\ sorted_non_overlapping(l)
    /\ \A i \in 1 .. Len(l) - 1 : cp1_of(l[i]) < cp0_of(l[i + 1])

\* A merged list whose entries of one code point are ints, not ranges.
normal_form(l) ==
    /\ merged(l)
    /\ \A i \in 1 .. Len(l) : Len(l[i]) = 2 => l[i][2] - l[i][1] >= 2

\* C13 as stated, canonical read as sorted, non-overlapping and merged: the
\* set built from the complement of the set built from A.complement() has
\* the list of A.
C13_InvolutionOnMerged ==
    (call.op = "complement2" /\ merged(call.before)) =>
        ~call.raised /\ call.result = call.before

\* C13: for every sorted, non-overlapping, merged set A whose entries of one
\* code point are ints, the set built from the complement of the set built
\* from A.complement() is equal (==) to A.
C13_InvolutionOnNormalForm ==
    (call.op = "complement2" /\ normal_form(call.before)) =>
        ~call.raised /\ call.result = call.before

\* The double complement of a set in normal form that holds an int and a
\* range and leaves a gap of two code points.
C13_Witness ==
    /\ call.op = "complement2"
    /\ normal_form(call.before)
    /\ \E i \in 1 .. Len(call.before) : Len(call.before[i]) = 1
    /\ \E i \in 1 .. Len(call.before) : Len(call.before[i]) = 2
    /\ \E i \in 1 .. Len(call.before) - 1 :
           cp0_of(call.before[i + 1]) - cp1_of(call.before[i]) = 2

\* C14: complement() raises exactly when some entry starts before the end of
\* the entry before it; so it does not raise on a sorted, non-overlapping
\* list, touching entries included.
C14_RaisesIffOverlap ==
    call.op = "complement" =>
        (call.raised <=>
            \E i \in 1 .. Len(call.before) - 1 :
                cp0_of(call.before[i + 1]) < cp1_of(call.before[i]))

\* complement() has raised on a list whose first two entries touch and whose
\* third starts inside the second.
C14_Witness ==
    /\ call.op = "complement" /\ call.raised
    /\ Len(call.before) = 3
    /\ cp1_of(call.before[1]) = cp0_of(call.before[2])
    /\ cp0_of(call.before[3]) < cp1_of(call.before[2])

-----------------------------------------------------------------------------
(* Properties of the category diff *)

\* The number of entries of l equal to e.
count(l, e) == Cardinality({i \in 1 .. Len(l) : l[i] = e})

\* Two entries share a code point.
overlap(x, y) == cp0_of(x) < cp1_of(y) /\ cp0_of(y) < cp1_of(x)

\* The base entries a diff keeps, in order.
kept(base, exclude_cps) == SelectSeq(base, LAMBDA e : e \notin exclude_cps)

\* The patched list is sorted and non-overlapping and holds each insertion
\* and each non-excluded base entry once, and no excluded base entry
\* otherwise.
well_patched(base, exclude_cps, insert_cps, values) ==
    /\ sorted_non_overlapping(values)
    /\ Len(values) = Len(kept(base, exclude_cps)) + Len(insert_cps)
    /\ \A e \in entries(base) \cup entries(insert_cps) \cup entries(values) :
           count(values, e) =
               count(kept(base, exclude_cps), e) + count(insert_cps, e)

\* C17 as stated: for a sorted, non-overlapping base list and any sorted,
\* non-overlapping insertion list, the patched list is sorted and
\* non-overlapping, holds no excluded base entry, and holds every insertion
\* and every non-excluded base entry exactly once.
C17_PatchWellFormed ==
    call.op = "patch" =>
        well_patched(call.before, call.value[1], call.value[2], call.result)

\* C17: for a sorted, non-overlapping base list and a sorted,
\* non-overlapping insertion list none of whose entries overlaps a base
\* entry that is not excluded, the patched list is sorted and
\* non-overlapping, holds no excluded base entry, and holds every insertion
\* and every non-excluded base entry exactly once.
C17_PatchOfDisjointWellFormed ==
    (/\ call.op = "patch"
     /\ sorted_non_overlapping(call.value[2])
     /\ \A i \in 1 .. Len(call.value[2]), k \in 1 .. Len(call.before) :
            call.before[k] \in call.value[1]
            \/ ~overlap(call.value[2][i], call.before[k])) =>
        well_patched(call.before, call.value[1], call.value[2], call.result)

\* A diff that excludes one base entry, keeps another, and inserts one entry
\* before the kept one and one after it.
C17_Witness ==
    /\ call.op = "patch"
    /\ sorted_non_overlapping(call.value[2])
    /\ \A i \in 1 .. Len(call.value[2]), k \in 1 .. Len(call.before) :
           call.before[k] \in call.value[1]
           \/ ~overlap(call.value[2][i], call.before[k])
    /\ Len(call.before) = 2 /\ Cardinality(call.value[1]) = 1
    /\ Len(call.value[2]) = 2
    /\ Len(call.result) = 3
    /\ call.result[2] \in entries(call.before)

-----------------------------------------------------------------------------
(* Properties of the registries *)

\* A categories table is in place.
installed == DOMAIN unicode_categories # {}

\* C15: when install_unicode_categories or install_unicode_blocks raises
\* because the module's minimum version is above the runtime's, the category
\* table, the block table and the two shortcut sets are as they were before
\* the call.
C15_FailedInstallKeepsTables ==
    install.raised => tables = install.old

\* install_unicode_categories has raised with both tables installed.
C15_Witness ==
    /\ install.raised
    /\ install.function = "install_unicode_categories"
    /\ installed
    /\ DOMAIN unicode_blocks # {}

\* The versions of the diffs at hand that are not above the runtime's.
due == {install.diffs[i] : i \in {j \in 1 .. Len(install.diffs) :
                                      ~too_new(install.diffs[j])}}

\* C16: when the loop over the diffs is over, the diffs applied are every
\* diff of the module whose version is <= the runtime's, each once, in
\* ascending order of their versions compared as tuples of ints.
C16_DiffsAscendingUpToRuntime ==
    install.pc = "clear" =>
        /\ {install.applied[i] : i \in 1 .. Len(install.applied)} = due
        /\ Len(install.applied) = Cardinality(due)
        /\ \A i \in 1 .. Len(install.applied) - 1 :
               tuple_less(version_tuple(install.applied[i]),
                          version_tuple(install.applied[i + 1]))

\* The table the running installation is building.
new_categories ==
    [k \in DOMAIN install.raw_categories |-> sorted(install.raw_categories[k])]

\* C18: at every point of a run of install_unicode_categories over an
\* installed table, the table unicode_category reads is the whole previous
\* table or the whole new one, and its 'Nd' list is that of D_SHORTCUT_SET.
C18_TableSwappedAtomically ==
    (/\ install.function = "install_unicode_categories"
     /\ install.pc # "idle"
     /\ DOMAIN install.old.categories # {}) =>
        /\ \/ unicode_categories = install.old.categories
           \/ /\ install.pc \in {"populate", "digits", "word"}
              /\ unicode_categories = new_categories
        /\ unicode_categories["Nd"] = D_SHORTCUT_SET

\* C19: after a caller has mutated a set unicode_category returned, a lookup
\* of the same name returns a set with the code points installed under the
\* name.
C19_LookupReturnsInstalled ==
    (reader.found /\ install.pc = "idle") =>
        \A cp \in 0 .. maxunicode :
            contains(reader.seen, cp)
                <=> covers(install.raw_categories[reader.held], cp)

\* The four lists of the table united by __or__ in the order L, M, N, S.
word_union ==
    union(union(union(unicode_categories["L"], unicode_categories["M"]),
                unicode_categories["N"]),
          unicode_categories["S"])

-----------------------------------------------------------------------------
(* Properties of unicode_block and get_unicode_subset *)

\* The code points of an entry of the table of blocks: those its set holds,
\* or those its class body stands for.
block_code_points(v) ==
    IF v.type = "UnicodeSubset"
    THEN {cp \in 0 .. maxunicode : covers(v.codepoints, cp)}
    ELSE code_points_of(iterparse_character_subset(v.body, FALSE).items)

\* The code points of 0 .. maxunicode that no entry of a table holds.
in_no_block(blocks) ==
    {cp \in 0 .. maxunicode :
        \A k \in DOMAIN blocks : cp \notin block_code_points(blocks[k])}

\* The step is a call of function: the caller gets its outcome.
Called(function) == lookup = NoLookup /\ lookup'.function = function

\* The call that has just returned is unicode_block of a name of the special
\* block.
LookedUpNoBlock ==
    /\ lookup.function = "unicode_block"
    /\ unicode_block_key(lookup.name) = "NOBLOCK"
    /\ lookup.raised = "none"

\* C21: the first lookup of 'NoBlock' with no such entry in the table
\* returns a newly built set of exactly the code points of 0 .. maxunicode
\* that are in no entry of the table, raw or materialized, and stores it in
\* the table; a lookup that finds the entry returns that very object and
\* constructs nothing; and whatever changes the table apart from a lookup,
\* that is an installation, leaves no such entry.
C21_NoBlockCachedOnce ==
    /\ [][Called("unicode_block") /\ LookedUpNoBlock' =>
            IF "NOBLOCK" \notin DOMAIN unicode_blocks
            THEN /\ lookup'.subset.type = "UnicodeSubset"
                 /\ lookup'.subset.id > objects
                 /\ sorted_non_overlapping(lookup'.subset.codepoints)
                 /\ {cp \in 0 .. maxunicode :
                        covers(lookup'.subset.codepoints, cp)}
                        = in_no_block(unicode_blocks)
                 /\ unicode_blocks' =
                        dict_set(unicode_blocks, "NOBLOCK", lookup'.subset)
            ELSE /\ lookup'.subset = unicode_blocks["NOBLOCK"]
                 /\ unicode_blocks' = unicode_blocks
                 /\ objects' = objects]_vars
    /\ [][unicode_blocks' # unicode_blocks /\ lookup' = lookup
             => "NOBLOCK" \notin DOMAIN unicode_blocks']_vars

\* The special block has been computed over a table with a raw and a
\* materialized block, and it is not empty.
C21_Witness ==
    /\ LookedUpNoBlock
    /\ "NOBLOCK" \notin DOMAIN lookup.before.blocks
    /\ \E k \in DOMAIN lookup.before.blocks :
           lookup.before.blocks[k].type = "str"
    /\ \E k \in DOMAIN lookup.before.blocks :
           lookup.before.blocks[k].type = "UnicodeSubset"
    /\ lookup.subset.codepoints # <<>>
    /\ in_no_block(lookup.before.blocks) # 0 .. maxunicode

\* C22: an entry is raw from the installation until the first lookup of its
\* key; that lookup puts a newly built set of the same code points in its
\* place; a lookup of a key whose entry is a set returns that very object;
\* and a lookup changes no entry but the one of its key, changes the code
\* points of none, and never leaves a str where a set was.
C22_MaterializedOnce ==
    /\ [][Called("unicode_block") =>
            LET key == unicode_block_key(lookup'.name)
            IN /\ \A k \in DOMAIN unicode_blocks :
                      /\ k \in DOMAIN unicode_blocks'
                      /\ block_code_points(unicode_blocks'[k])
                             = block_code_points(unicode_blocks[k])
                      /\ k # key => unicode_blocks'[k] = unicode_blocks[k]
                      /\ unicode_blocks[k].type = "UnicodeSubset"
                             => unicode_blocks'[k] = unicode_blocks[k]
               /\ key \in DOMAIN unicode_blocks /\ lookup'.raised = "none" =>
                      /\ lookup'.subset = unicode_blocks'[key]
                      /\ lookup'.subset.type = "UnicodeSubset"
                      /\ IF unicode_blocks[key].type = "str"
                         THEN /\ lookup'.subset.id > objects
                              /\ objects' = objects + 1
                         ELSE /\ lookup'.subset = unicode_blocks[key]
                              /\ objects' = objects]_vars
    /\ [][unicode_blocks' # unicode_blocks /\ lookup' = lookup
             => \A k \in DOMAIN unicode_blocks' :
                    unicode_blocks'[k].type = "str"]_vars

\* A block that an earlier lookup has materialized is looked up under another
\* spelling of its name, while another block is still raw.
C22_Witness ==
    /\ lookup.function = "unicode_block"
    /\ lookup.name = "basic-latin"
    /\ lookup.raised = "none"
    /\ lookup.before.blocks["BASICLATIN"].type = "UnicodeSubset"
    /\ lookup.subset = lookup.before.blocks["BASICLATIN"]
    /\ lookup.subset.codepoints # <<>>
    /\ \E k \in DOMAIN lookup.before.blocks :
           lookup.before.blocks[k].type = "str"

\* C23: get_unicode_subset(name) for a name that starts with 'Is' returns
\* the set of the table of blocks under the key of the rest of the name,
\* whatever the categories are, and otherwise the set of the table of
\* categories under the name, whatever the blocks are; a name the table
\* consulted does not hold (the special block apart) raises a RegexError that
\* names that table, never a KeyError, and leaves both tables as they were.
C23_DispatchOnPrefix ==
    [][Called("get_unicode_subset") =>
        LET key == unicode_block_key(without_prefix(lookup'.name))
        IN /\ lookup'.raised # "KeyError"
           /\ unicode_categories' = unicode_categories
           /\ IF Is_prefixed(lookup'.name)
              THEN IF key \in DOMAIN unicode_blocks \/ key = "NOBLOCK"
                   THEN /\ lookup'.raised = "none"
                        /\ lookup'.subset = unicode_blocks'[key]
                        /\ lookup'.subset.type = "UnicodeSubset"
                   ELSE /\ lookup'.raised = "RegexError: block"
                        /\ unicode_blocks' = unicode_blocks
              ELSE /\ unicode_blocks' = unicode_blocks
                   /\ IF lookup'.name \in DOMAIN unicode_categories
                      THEN /\ lookup'.raised = "none"
                           /\ lookup'.subset.codepoints
                                  = unicode_categories[lookup'.name]
                      ELSE lookup'.raised = "RegexError: category"]_vars

\* 'IsL' has been resolved while 'L' is a category and no block, and has
\* raised the RegexError of the blocks.
C23_Witness ==
    /\ lookup.function = "get_unicode_subset"
    /\ lookup.name = "IsL"
    /\ "L" \in DOMAIN lookup.before.categories
    /\ DOMAIN lookup.before.blocks # {}
    /\ lookup.raised = "RegexError: block"
    /\ unicode_blocks = lookup.before.blocks

-----------------------------------------------------------------------------
(* Properties of a set combined with itself, of discard, of iteration *)

\* C24: for a set A built from the empty set by valid add and discard calls,
\* A & A has the list of A, A - A and A ^ A have an empty list, and after
\* A ^= A the list of A is empty; the three operators leave A as it was.
C24_SelfIdentities ==
    call.op \in {"and", "sub", "xor", "ixor"} /\ call.value = call.before =>
        /\ call.op = "and" => call.result = call.before /\ cps = call.before
        /\ call.op = "sub" => call.result = <<>> /\ cps = call.before
        /\ call.op = "xor" => call.result = <<>> /\ cps = call.before
        /\ call.op = "ixor" => cps = <<>>

\* A set of several entries has been cleared by s ^= s.
C24_Witness ==
    /\ call.op = "ixor"
    /\ Len(call.before) >= 2
    /\ call.value = call.before
    /\ cps = <<>>

\* The removed range of the discard that has just returned lies strictly
\* inside entry i (1-based) of the list the call found.
strictly_inside(i) ==
    /\ call.op = "discard" /\ ~call.raised
    /\ i \in 1 .. Len(call.before)
    /\ cp0_of(call.before[i]) < start_of(call.value)
    /\ end_of(call.value) < cp1_of(call.before[i])

\* C25: when the removed range [lo, hi) lies strictly inside one entry
\* [a, b) of a sorted, non-overlapping list, discard leaves the entries
\* before it as they were, then [a, lo), then [hi, b), then the entries after
\* it as they were: one entry more than before.
C25_DiscardSplits ==
    \A i \in 1 .. Len(call.before) :
        strictly_inside(i) =>
            /\ Len(cps) = Len(call.before) + 1
            /\ SubSeq(cps, 1, i - 1) = SubSeq(call.before, 1, i - 1)
            /\ cp0_of(cps[i]) = cp0_of(call.before[i])
            /\ cp1_of(cps[i]) = start_of(call.value)
            /\ cp0_of(cps[i + 1]) = end_of(call.value)
            /\ cp1_of(cps[i + 1]) = cp1_of(call.before[i])
            /\ SubSeq(cps, i + 2, Len(cps))
                   = SubSeq(call.before, i + 1, Len(call.before))

\* A range has been removed from the inside of the second of three entries.
C25_Witness ==
    /\ Len(call.before) = 3
    /\ strictly_inside(2)
    /\ Len(cps) = 4

\* The ints of a sequence are in strictly ascending order.
ascending(l) == \A i \in 1 .. Len(l) - 1 : l[i] < l[i + 1]

\* The ints of a sequence are in strictly descending order.
descending(l) == \A i \in 1 .. Len(l) - 1 : l[i] > l[i + 1]

\* The code points a list holds.
held(l) == {cp \in 0 .. maxunicode : covers(l, cp)}

\* C28: for a sorted, non-overlapping set, every call of iteration yields
\* the code points the set holds in strictly ascending order, every call of
\* reversed iteration yields them in strictly descending order, len is the
\* number of ints iteration yields, and none of the three changes the list.
C28_IterationIsExact ==
    /\ call.op \in {"iter", "reversed", "len"} => cps = call.before
    /\ call.op = "iter" =>
           /\ ascending(call.result)
           /\ {call.result[i] : i \in 1 .. Len(call.result)} = held(call.before)
    /\ call.op = "reversed" =>
           /\ descending(call.result)
           /\ {call.result[i] : i \in 1 .. Len(call.result)} = held(call.before)
    /\ call.op = "len" =>
           /\ call.result[1] = Len(iter(call.before))
           /\ call.result[1] = Cardinality(held(call.before))

\* A set of an int and a range of three has been iterated backward.
C28_Witness ==
    /\ call.op = "reversed"
    /\ Len(call.before) = 2
    /\ Len(call.result) = 4
    /\ Len(call.before[1]) = 1

\* C29: |, -, &, ^, difference and copy return a set that is neither of the
\* operands, and neither the call nor any later add or discard on the set
\* returned changes the list of an operand.
C29_OperandsUntouched ==
    /\ [](heap.result \notin {SelfSet, OtherSet})
    /\ [][/\ heap'.lists[SelfSet] = heap.lists[SelfSet]
          /\ heap'.lists[OtherSet] = heap.lists[OtherSet]]_vars

\* The set that self | other returned has been changed by the caller and
\* now differs from both operands, which are not empty.
C29_Witness ==
    /\ heap.result = 3
    /\ heap.lists[SelfSet] # <<>>
    /\ heap.lists[OtherSet] # <<>>
    /\ heap.lists[3] # heap.lists[SelfSet]
    /\ heap.lists[3] # heap.lists[OtherSet]
    /\ heap.lists[3] # union(heap.lists[SelfSet], heap.lists[OtherSet])
    /\ Len(heap.lists[3]) >= 2

-----------------------------------------------------------------------------
(* Properties of the parser: ranges, backslashes, termination *)

\* A character that is no backslash, hyphen, bracket or meta-character.
ordinary(c) == c \notin {HYPHEN, BACKSLASH} \cup META \cup BRACKETS

\* The body is x-y for ordinary characters x <= y.
PlainRange ==
    /\ Len(s) = 3
    /\ s[2] = HYPHEN
    /\ ordinary(s[1]) /\ ordinary(s[3])
    /\ s[1] <= s[3]

\* C26: the body 'x-y' with ordinary characters x <= y parses without error;
\* with expand_ranges False the only item is the range (x, y + 1), with
\* expand_ranges True the items are the scalars x, x + 1, ..., y in this
\* order.
C26_PlainRangeParses ==
    PlainRange /\ Ended =>
        /\ pc = "done"
        /\ ~expand_ranges => out = <<<<s[1], s[3] + 1>>>>
        /\ expand_ranges =>
               out = [i \in 1 .. s[3] - s[1] + 1 |-> <<s[1] + i - 1>>]

\* 'a-d' has been parsed with expand_ranges True into four scalars.
C26_Witness ==
    /\ PlainRange
    /\ s[1] < s[3]
    /\ expand_ranges
    /\ pc = "done"
    /\ Len(out) = s[3] - s[1] + 1
    /\ prev.out = <<<<s[1], s[3] + 1>>>>

\* What a backslash can escape: a backslash, a hyphen, a bracket or a
\* meta-character.
ESCAPABLE == {BACKSLASH, HYPHEN} \cup BRACKETS \cup META

\* The step at hand consumes a backslash that is not escaped: the character
\* the loop is at, or the end character the range step takes.
ConsumesBackslash ==
    /\ AtIndex
    /\ \/ at(pos) = BACKSLASH /\ ~escaped
       \/ /\ pos > 0 /\ at(pos) = HYPHEN
          /\ ~(escaped \/ pos = length - 1 \/ on_range)
          /\ at(pos + 1) = BACKSLASH

\* The body ends in a backslash that no backslash before it escapes.
EndsInBackslash ==
    Len(s) > 0 /\ backslashes_before(Len(s) + 1) % 2 = 1

\* The last item yielded is the scalar 92.
LastIsBackslash == out # <<>> /\ out[Len(out)] = <<BACKSLASH>>

\* C27 as stated: a backslash that is not escaped yields nothing at the step
\* that consumes it and sets escaped; the next character clears escaped; an
\* escaped backslash, hyphen, bracket or meta-character yields its scalar
\* and nothing else; and a body that ends in an unmatched backslash and
\* parses without error yields 92 as its last item.
C27_BackslashHandling ==
    /\ [][ConsumesBackslash /\ pc' # "raised" => out' = out /\ escaped']_vars
    /\ [][AtIndex /\ escaped => ~escaped']_vars
    /\ [][AtIndex /\ escaped /\ at(pos) \in ESCAPABLE
             => out' = Append(out, <<at(pos)>>)]_vars
    /\ [](pc = "done" /\ EndsInBackslash => LastIsBackslash)

\* C27 amended: the same for the backslashes the loop itself reaches, not
\* those the range step takes as the end of a range; an escaped bracket that
\* a hyphen other than the last character follows yields nothing and is held
\* as the start of a range; and the body that ends in an unmatched backslash
\* yields 92 last unless the range step took that backslash.
C27_BackslashHandlingInLoop ==
    /\ [][AtIndex /\ at(pos) = BACKSLASH /\ ~escaped
             => out' = out /\ escaped' /\ pc' = pc]_vars
    /\ [][AtIndex /\ escaped => ~escaped']_vars
    /\ [][AtIndex /\ escaped /\ at(pos) \in ESCAPABLE
             => IF at(pos) \in BRACKETS /\ pos < length - 2
                   /\ at(pos + 1) = HYPHEN
                THEN out' = out /\ char' = at(pos)
                ELSE out' = Append(out, <<at(pos)>>)]_vars
    /\ [](pc = "done" /\ EndsInBackslash /\ ~LastIsBackslash
             => Len(s) >= 3 /\ s[Len(s) - 1] = HYPHEN /\ on_range /\ ~escaped)

\* An escaped hyphen, bracket or meta-character has yielded its scalar and
\* the backslash that ends the body has yielded 92.
C27_Witness ==
    /\ pc = "done"
    /\ Len(s) = 3
    /\ s[1] = BACKSLASH
    /\ s[2] \in ESCAPABLE \ {BACKSLASH}
    /\ s[3] = BACKSLASH
    /\ out = <<<<s[2]>>, <<BACKSLASH>>>>

\* C30: the call ends for every body: the loop takes the indices in strictly
\* increasing order and never one past the end, every subscript of the body
\* is inside the body (those taken by next() for the end of a range
\* included), a step is possible until the generator is exhausted or has
\* raised, and what it raises is a RegexError for a character or a range.
C30_ParserTerminates ==
    /\ [][AtIndex => pos < pos' /\ pos' <= length]_vars
    /\ [](AtIndex => \A i \in subscripts : 0 <= i /\ i < length)
    /\ [](pc = "loop" => ENABLED (First \/ HyphenLiteral \/ Range \/ Meta
                                   \/ Bracket \/ Backslash \/ Other \/ Finish))
    /\ [](pc \in {"loop", "done", "raised"})
    /\ [](pc = "raised" <=> error.kind \in {"character", "range"})
    /\ [](pc \in {"done", "raised"} => pos <= length)

\* A range whose end is an escaped character at the very end of the body has
\* been parsed: next() was called twice and the iterator is exhausted.
C30_Witness ==
    /\ pc = "done"
    /\ step = "end"
    /\ Len(s) = 4
    /\ s[2] = HYPHEN
    /\ s[3] = BACKSLASH
    /\ s[4] \in RANGE_END_ESCAPES
    /\ pos = length
    /\ on_range
    /\ Len(out) = 1

\* The step at hand yields 92 and then treats the ordinary character it is
\* at as one that is not escaped: it yields the scalar, or yields nothing
\* more and holds the character as the start of the range that the hyphen
\* after it, not the last character, opens.
BackslashThenCharacter ==
    /\ ~escaped'
    /\ \/ out' = out \o <<<<BACKSLASH>>, <<at(pos)>>>>
       \/ /\ out' = out \o <<<<BACKSLASH>>>>
          /\ char' = at(pos)
          /\ pos + 1 < length - 1
          /\ at(pos + 1) = HYPHEN

\* C31 as stated: the step that reads an ordinary character which follows a
\* backslash that is not itself escaped yields 92 and then the scalar of
\* the character, or 92 alone when the character is held as the start of a
\* range.
C31_BackslashKept ==
    [][/\ AtIndex /\ pos > 0
       /\ ordinary(at(pos))
       /\ backslashes_before(pos + 1) % 2 = 1
       => BackslashThenCharacter]_vars

\* C31 amended: the same for a backslash that the loop itself has reached
\* and that has set escaped, not one the range step has taken as the end of
\* a range.
C31_PendingBackslashKept ==
    [][AtIndex /\ pos > 0 /\ ordinary(at(pos)) /\ escaped
          => BackslashThenCharacter]_vars

\* The body \d has been parsed to 92 and 100.
C31_Witness ==
    /\ pc = "done"
    /\ s = <<BACKSLASH, 100>>
    /\ step = "end"
    /\ out = <<<<BACKSLASH>>, <<100>>>>

====
